---- MODULE Spec2Model ----
(***************************************************************************)
(* ZzzFS: pools, filesystems and snapshots kept as directories, symbolic   *)
(* links and key files under a managed root (libzzzfs/dataset.py), and the *)
(* zzzfs commands that act on them (libzzzfs/zfs.py).                      *)
(*                                                                         *)
(* A filesystem name is the sequence of its '/'-separated components, the  *)
(* pool first: foo/a/b is <<"foo", "a", "b">>.  The backing storage of a   *)
(* pool is the directory <disk>/<pool>; the data link of filesystem        *)
(* pool/x/y points at <disk>/<pool>/x/y, so a path of the backing storage  *)
(* is written as the same sequence as the filesystem it belongs to, and    *)
(* the data directory of a child filesystem lies inside the data directory *)
(* of its parent.                                                          *)
(***************************************************************************)
EXTENDS Integers, Sequences, FiniteSets, TLC

\* Number of state-changing commands in one explored run.
MaxOps == 3
\* Number of entries in one batch of zfs snapshot.
MaxBatch == 2
\* Length of the identifiers given to the resolver.
MaxIdLen == 4

\* The names the commands are called with.
PoolNames == {"foo"}
FsNames == {<<"foo">>, <<"foo", "a">>, <<"foo", "b">>, <<"foo", "a", "b">>}
SnapNames == {"s", "t"}
Keys == {"x"}
Vals == {"1", "2"}
\* The one file name users put into data directories.
FileName == "f"

VARIABLES
    pools,   \* names of the pool directories under the managed root
    fsys,    \* filesystem name -> its directory under <pool>/filesystems
    ddirs,   \* directories of the backing storage (paths)
    dfiles,  \* files of the backing storage (paths)
    last,    \* the last command, its arguments and how it ended
    nops,    \* commands run so far
    mark,    \* history: the filesystem as it was when a snapshot was taken
    lister,  \* a concurrent `zzzfs list`: where it is and what it holds
    history, \* pool name -> the records of its history file
    procs    \* the commands under way step by step: process -> where it is

vars == <<pools, fsys, ddirs, dfiles, last, nops, mark, lister, history, procs>>

----------------------------------------------------------------------------
(* Maps, paths and directory trees *)

EmptyMap == [k \in {} |-> "1"]
Put(m, k, v) == [x \in (DOMAIN m) \cup {k} |-> IF x = k THEN v ELSE m[x]]
Del(m, k) == [x \in (DOMAIN m) \ {k} |-> m[x]]

IsPrefix(p, q) == Len(p) <= Len(q) /\ SubSeq(q, 1, Len(p)) = p
Front(p) == SubSeq(p, 1, Len(p) - 1)
Rel(p, base) == SubSeq(p, Len(base) + 1, Len(p))
Prefixes(p) == {SubSeq(p, 1, n) : n \in 1..Len(p)}

\* A properties directory: absent, or a set of key files.
NoProps == [present |-> FALSE, kv |-> EmptyMap]
EmptyProps == [present |-> TRUE, kv |-> EmptyMap]
\* A copied data tree: absent, or directories and files relative to its top.
NoTree == [present |-> FALSE, dirs |-> {}, files |-> {}]
\* A snapshots directory: absent, or snapshot name -> snapshot directory.
NoSnaps == [present |-> FALSE, m |-> EmptyMap]
EmptySnaps == [present |-> TRUE, m |-> EmptyMap]

\* An identifier as the user writes it: filesystem part and snapshot part
\* ("" when there is no '@').
FsId(F) == [fs |-> F, snap |-> ""]
SnapId(F, S) == [fs |-> F, snap |-> S]
NoId == [fs |-> <<>>, snap |-> ""]
IsSnapId(id) == id.snap # ""

\* The storage a command works on, with the error it has raised so far.
World == [pools |-> pools, fsys |-> fsys, ddirs |-> ddirs, dfiles |-> dfiles,
          err |-> "ok"]
Fail(w, e) == [w EXCEPT !.err = e]

\* Dataset.properties / Dataset.data / Filesystem.snapshots of an object
FsExists(w, F) == F \in DOMAIN w.fsys
SnapExists(w, F, S) ==
    /\ FsExists(w, F)
    /\ w.fsys[F].snaps.present
    /\ S \in DOMAIN w.fsys[F].snaps.m
DsExists(w, id) ==
    IF IsSnapId(id) THEN SnapExists(w, id.fs, id.snap) ELSE FsExists(w, id.fs)
PoolOf(F) == F[1]
PoolExists(w, p) == p \in w.pools

\* os.path.exists(Filesystem.mountpoint): the data link is there and the
\* directory it points at is there.
MountExists(w, F) == FsExists(w, F) /\ w.fsys[F].data /\ F \in w.ddirs

\* shutil.rmtree of a directory of the backing storage
RmTree(w, P) ==
    IF w.err # "ok" THEN w
    ELSE IF P \notin w.ddirs THEN Fail(w, "oserror")
    ELSE [w EXCEPT !.ddirs = {d \in @ : ~IsPrefix(P, d)},
                   !.dfiles = {f \in @ : ~IsPrefix(P, f)}]

\* The tree below directory P of the backing storage, as copytree reads it.
TreeAt(w, P) ==
    IF P \in w.ddirs
    THEN [present |-> TRUE,
          dirs |-> {Rel(d, P) : d \in {x \in w.ddirs : IsPrefix(P, x)}},
          files |-> {Rel(f, P) : f \in {x \in w.dfiles : IsPrefix(P, x)}}]
    ELSE NoTree

\* shutil.copytree(tree, P): P must not exist; missing parents are made.
PutTree(w, t, P) ==
    IF w.err # "ok" THEN w
    ELSE IF ~t.present \/ P \in w.ddirs THEN Fail(w, "oserror")
    ELSE [w EXCEPT !.ddirs = @ \cup Prefixes(P) \cup {P \o d : d \in t.dirs},
                   !.dfiles = @ \cup {P \o f : f \in t.files}]

----------------------------------------------------------------------------
(* Properties *)

Join(p) == IF Len(p) = 1 THEN p[1]
           ELSE IF Len(p) = 2 THEN p[1] \o "/" \o p[2]
           ELSE p[1] \o "/" \o p[2] \o "/" \o p[3]

\* A dataset object: a Pool, a Filesystem or a Snapshot.
PoolObj(p) == [kind |-> "pool", fs |-> <<p>>, snap |-> ""]
FsObj(F) == [kind |-> "fs", fs |-> F, snap |-> ""]
SnapObj(F, S) == [kind |-> "snap", fs |-> F, snap |-> S]
ObjOf(id) == IF IsSnapId(id) THEN SnapObj(id.fs, id.snap) ELSE FsObj(id.fs)

\* Dataset.creation
Creation(w, d) ==
    IF d.kind = "fs" THEN (IF FsExists(w, d.fs) THEN "ctime" ELSE "None")
    ELSE IF d.kind = "snap"
         THEN (IF SnapExists(w, d.fs, d.snap) THEN "ctime" ELSE "None")
         ELSE (IF PoolExists(w, d.fs[1]) THEN "ctime" ELSE "None")

\* Dataset.base_attrs / Filesystem.base_attrs / Snapshot.base_attrs
BaseAttrs(w, d) ==
    IF d.kind = "fs"
    THEN [k \in {"name", "mountpoint", "creation"} |->
            IF k = "name" THEN Join(d.fs)
            ELSE IF k = "mountpoint"
                 THEN (IF FsExists(w, d.fs) /\ w.fsys[d.fs].data
                       THEN "/disk/" \o Join(d.fs)
                       ELSE "/root/" \o Join(d.fs) \o "/data")
                 ELSE Creation(w, d)]
    ELSE IF d.kind = "snap"
    THEN [k \in {"name", "creation"} |->
            IF k = "name" THEN Join(d.fs) \o "@" \o d.snap
            ELSE Creation(w, d)]
    ELSE [k \in {"name"} |-> d.fs[1]]

\* The properties directory of a dataset (a pool never gets one).
PropsDir(w, d) ==
    IF d.kind = "fs"
    THEN (IF FsExists(w, d.fs) THEN w.fsys[d.fs].props ELSE NoProps)
    ELSE IF d.kind = "snap"
    THEN (IF SnapExists(w, d.fs, d.snap)
          THEN w.fsys[d.fs].snaps.m[d.snap].props ELSE NoProps)
    ELSE NoProps

\* Dataset.get_local_properties
GetLocalProperties(w, d) ==
    LET base == BaseAttrs(w, d)
        dir == PropsDir(w, d)
    IN  IF ~dir.present THEN base
        ELSE [k \in (DOMAIN base) \cup (DOMAIN dir.kv) |->
                IF k \in DOMAIN dir.kv THEN dir.kv[k] ELSE base[k]]

\* Dataset.get_parent / Pool.get_parent: the object one step up, by name.
\* A snapshot's name is its bare name, so its parent is the pool of that name.
HasParent(d) == d.kind # "pool"
GetParent(d) ==
    IF d.kind = "fs" /\ Len(d.fs) > 1 THEN FsObj(Front(d.fs))
    ELSE IF d.kind = "fs" THEN PoolObj(d.fs[1])
    ELSE PoolObj(d.snap)

\* The loop of Dataset.get_inherited_properties, from object `parent` upward.
RECURSIVE InheritWalk(_, _, _, _)
InheritWalk(w, parent, attrs, localAttrs) ==
    IF ~HasParent(parent) THEN attrs
    ELSE LET p == GetParent(parent)
             lp == GetLocalProperties(w, p)
             add == {k \in DOMAIN lp :
                       k \notin DOMAIN attrs /\ k \notin DOMAIN localAttrs}
             attrs2 == [k \in (DOMAIN attrs) \cup add |->
                          IF k \in DOMAIN attrs THEN attrs[k] ELSE lp[k]]
         IN  InheritWalk(w, p, attrs2, localAttrs)

\* A lookup that asks the parent only, not the parents above it.
GetInheritedPropertiesParentOnly(w, d) ==
    LET localAttrs == GetLocalProperties(w, d)
        lp == IF HasParent(d) THEN GetLocalProperties(w, GetParent(d))
              ELSE EmptyMap
    IN  [k \in (DOMAIN lp) \ (DOMAIN localAttrs) |-> lp[k]]

\* Dataset.get_inherited_properties
GetInheritedProperties(w, d) ==
    InheritWalk(w, d, EmptyMap, GetLocalProperties(w, d))

\* Dataset.get_property_and_source
NotFound == [val |-> "None", source |-> "None"]
GetPropertyAndSource(w, d, key) ==
    LET local == GetLocalProperties(w, d)
        inherited == GetInheritedProperties(w, d)
    IN  IF key \in DOMAIN local THEN [val |-> local[key], source |-> "local"]
        ELSE IF key \in DOMAIN inherited
        THEN [val |-> inherited[key], source |-> "inherited"]
        ELSE NotFound

\* Writes the properties directory of a dataset that exists.
SetPropsDir(w, d, dir) ==
    IF d.kind = "fs" THEN [w EXCEPT !.fsys[d.fs].props = dir]
    ELSE [w EXCEPT !.fsys[d.fs].snaps.m[d.snap].props = dir]

\* Dataset.add_local_property: makes the properties directory when it is
\* missing, then writes the key file.
AddLocalProperty(w, d, key, val) ==
    IF w.err # "ok" THEN w
    ELSE LET dir == PropsDir(w, d)
         IN  SetPropsDir(w, d, [present |-> TRUE, kv |-> Put(dir.kv, key, val)])

RECURSIVE AddLocalProperties(_, _, _)
AddLocalProperties(w, d, kvs) ==
    IF kvs = <<>> THEN w
    ELSE AddLocalProperties(
            AddLocalProperty(w, d, Head(kvs)[1], Head(kvs)[2]), d, Tail(kvs))

\* Dataset.remove_local_property
RemoveLocalProperty(w, d, key) ==
    IF w.err # "ok" THEN w
    ELSE IF GetPropertyAndSource(w, d, key).source = "local"
    THEN (IF PropsDir(w, d).present /\ key \in DOMAIN PropsDir(w, d).kv
          THEN SetPropsDir(w, d, [PropsDir(w, d) EXCEPT !.kv = Del(@, key)])
          ELSE Fail(w, "oserror"))
    ELSE w

----------------------------------------------------------------------------
(* get_dataset_by: the checks on an identifier whose names are well formed. *)

\* A resolver that looks for the pool before it looks for the dataset.
GetDatasetByPoolFirst(w, id, shouldBe, shouldExist) ==
    IF shouldBe = "fs" /\ IsSnapId(id) THEN "not_a_filesystem"
    ELSE IF shouldBe = "snap" /\ ~IsSnapId(id) THEN "not_a_snapshot"
    ELSE IF ~PoolExists(w, PoolOf(id.fs)) THEN "no_such_pool"
    ELSE IF shouldExist = "yes" /\ ~DsExists(w, id) THEN "no_such_dataset"
    ELSE IF shouldExist = "no" /\ DsExists(w, id) THEN "dataset_exists"
    ELSE "ok"

GetDatasetBy(w, id, shouldBe, shouldExist) ==
    IF shouldBe = "fs" /\ IsSnapId(id) THEN "not_a_filesystem"
    ELSE IF shouldBe = "snap" /\ ~IsSnapId(id) THEN "not_a_snapshot"
    ELSE IF shouldExist = "yes" /\ ~DsExists(w, id) THEN "no_such_dataset"
    ELSE IF shouldExist = "no" /\ DsExists(w, id) THEN "dataset_exists"
    ELSE IF ~PoolExists(w, PoolOf(id.fs)) THEN "no_such_pool"
    ELSE "ok"

Check(w, e) == IF w.err = "ok" /\ e # "ok" THEN Fail(w, e) ELSE w

----------------------------------------------------------------------------
(* Filesystem.create *)

\* os.makedirs(<root>/../../data/<poolless name>) with every OSError ignored:
\* makes the filesystem's own directory on the way, and the data directory
\* with its missing parents when the pool's backing directory is there.
MakeDataDir(w, F) ==
    IF w.err # "ok" THEN w
    ELSE [w EXCEPT
            !.fsys = IF F \in DOMAIN @ THEN @
                     ELSE [G \in (DOMAIN @) \cup {F} |->
                             IF G = F
                             THEN [data |-> FALSE, props |-> NoProps,
                                   snaps |-> NoSnaps]
                             ELSE @[G]],
            !.ddirs = IF <<PoolOf(F)>> \in @ THEN @ \cup Prefixes(F) ELSE @]

\* os.symlink(target, self.data)
MakeDataLink(w, F) ==
    IF w.err # "ok" THEN w
    ELSE IF ~FsExists(w, F) \/ w.fsys[F].data THEN Fail(w, "oserror")
    ELSE [w EXCEPT !.fsys[F].data = TRUE]

\* os.makedirs(self.properties)
MakePropsDir(w, F) ==
    IF w.err # "ok" THEN w
    ELSE IF w.fsys[F].props.present THEN Fail(w, "oserror")
    ELSE [w EXCEPT !.fsys[F].props = EmptyProps]

\* os.makedirs(self.snapshots)
MakeSnapsDir(w, F) ==
    IF w.err # "ok" THEN w
    ELSE IF w.fsys[F].snaps.present THEN Fail(w, "oserror")
    ELSE [w EXCEPT !.fsys[F].snaps = EmptySnaps]

ParentExists(w, F) ==
    IF Len(F) > 1 THEN FsExists(w, Front(F)) ELSE PoolExists(w, F[1])

\* Filesystem.create without a stream
RECURSIVE FsCreate(_, _, _)
FsCreate(w, F, createParents) ==
    IF w.err # "ok" THEN w
    ELSE LET w1 == IF ParentExists(w, F) THEN w
                   ELSE IF createParents /\ Len(F) > 1
                        THEN FsCreate(w, Front(F), TRUE)
                        ELSE IF createParents THEN Fail(w, "type_error")
                        ELSE Fail(w, "parent_missing")
         IN  MakeSnapsDir(MakePropsDir(MakeDataLink(MakeDataDir(w1, F), F), F), F)

\* A create that writes the supplied properties on the parent as well.
ZfsCreatePropsOnParent(w, F, createParents, properties) ==
    LET w1 == Check(w, GetDatasetBy(w, FsId(F), "fs", "no"))
        w2 == FsCreate(w1, F, createParents)
        w3 == AddLocalProperties(w2, FsObj(F), properties)
    IN  IF Len(F) > 1 THEN AddLocalProperties(w3, FsObj(Front(F)), properties)
        ELSE w3

\* zfs.create
ZfsCreate(w, F, createParents, properties) ==
    LET w1 == Check(w, GetDatasetBy(w, FsId(F), "fs", "no"))
        w2 == FsCreate(w1, F, createParents)
    IN  AddLocalProperties(w2, FsObj(F), properties)

----------------------------------------------------------------------------
(* Filesystem.destroy *)

\* A filter that keeps the children of F only, not what lies below them.
DependenciesChildrenOnly(w, F, order) ==
    SelectSeq(order, LAMBDA G : FsExists(w, G) /\ Len(G) > 1 /\ Front(G) = F)

\* Pool.get_filesystems filtered to names that start with F + '/', in the
\* order `order` in which the directory listing returns the entries.
Dependencies(w, F, order) ==
    SelectSeq(order, LAMBDA G :
        /\ FsExists(w, G)
        /\ PoolOf(G) = PoolOf(F)
        /\ Len(G) > Len(F)
        /\ IsPrefix(F, G))

\* A removal of the properties directory alone, the snapshots left behind.
RmRootPropertiesOnly(w, F) ==
    IF w.err # "ok" THEN w
    ELSE IF ~FsExists(w, F) THEN Fail(w, "oserror")
    ELSE [w EXCEPT !.fsys[F].props = NoProps]

\* shutil.rmtree(self.root)
RmRoot(w, F) ==
    IF w.err # "ok" THEN w
    ELSE IF ~FsExists(w, F) THEN Fail(w, "oserror")
    ELSE [w EXCEPT !.fsys = [G \in (DOMAIN @) \ {F} |-> @[G]]]

RECURSIVE FsDestroy(_, _, _, _)
RECURSIVE FsDestroyEach(_, _, _, _)
FsDestroy(w, F, recursive, order) ==
    IF w.err # "ok" THEN w
    ELSE LET dependencies == Dependencies(w, F, order)
         IN  IF Len(dependencies) > 0 /\ ~recursive
             THEN Fail(w, "has_children")
             ELSE LET w1 == IF MountExists(w, F) THEN RmTree(w, F) ELSE w
                      w2 == RmRoot(w1, F)
                  IN  FsDestroyEach(w2, dependencies, recursive, order)
\* for f in dependencies: f.destroy(recursive)
FsDestroyEach(w, deps, recursive, order) ==
    IF w.err # "ok" \/ deps = <<>> THEN w
    ELSE FsDestroyEach(FsDestroy(w, Head(deps), recursive, order),
                       Tail(deps), recursive, order)

\* zfs.destroy
ZfsDestroy(w, id, recursive, order) ==
    LET w1 == Check(w, GetDatasetBy(w, id, "fs", "yes"))
    IN  FsDestroy(w1, id.fs, recursive, order)

----------------------------------------------------------------------------
(* zfs.set and zfs.inherit, on one identifier *)

ZfsSet(w, key, val, id) ==
    LET w1 == Check(w, GetDatasetBy(w, id, "any", "yes"))
    IN  AddLocalProperty(w1, ObjOf(id), key, val)

\* An inherit that looks the dataset up and leaves the key file in place.
ZfsInheritKeepsKey(w, key, id) ==
    Check(w, GetDatasetBy(w, id, "any", "yes"))

\* os.remove of the key file, an OSError ignored
ZfsInherit(w, key, id) ==
    LET w1 == Check(w, GetDatasetBy(w, id, "any", "yes"))
        dir == PropsDir(w1, ObjOf(id))
    IN  IF w1.err # "ok" THEN w1
        ELSE IF dir.present /\ key \in DOMAIN dir.kv
        THEN SetPropsDir(w1, ObjOf(id), [dir EXCEPT !.kv = Del(@, key)])
        ELSE w1

----------------------------------------------------------------------------
(* Snapshot.create and zfs.snapshot *)

\* os.makedirs(self.root) of a snapshot: the entry must be new; a missing
\* snapshots directory is made on the way.
MakeSnapRoot(w, F, S) ==
    IF w.err # "ok" THEN w
    ELSE IF SnapExists(w, F, S) THEN Fail(w, "oserror")
    ELSE [w EXCEPT !.fsys[F].snaps =
            [present |-> TRUE,
             m |-> Put(@.m, S, [data |-> NoTree, props |-> NoProps])]]

\* shutil.copytree(self.filesystem.data, self.data)
CopyDataToSnap(w, F, S) ==
    IF w.err # "ok" THEN w
    ELSE IF ~MountExists(w, F) THEN Fail(w, "oserror")
    ELSE [w EXCEPT !.fsys[F].snaps.m[S].data = TreeAt(w, F)]

\* The filesystem's properties directory copied, or an empty one made.
CopyPropsToSnap(w, F, S) ==
    IF w.err # "ok" THEN w
    ELSE IF w.fsys[F].props.present
    THEN [w EXCEPT !.fsys[F].snaps.m[S].props = w.fsys[F].props]
    ELSE [w EXCEPT !.fsys[F].snaps.m[S].props = EmptyProps]

SnapCreate(w, F, S) ==
    CopyPropsToSnap(CopyDataToSnap(MakeSnapRoot(w, F, S), F, S), F, S)

\* The loop of zfs.snapshot: the entries of the batch one after the other,
\* stopping at the first that raises.
RECURSIVE SnapshotEach(_, _, _)
SnapshotEach(w, ids, properties) ==
    IF w.err # "ok" \/ ids = <<>> THEN w
    ELSE LET id == Head(ids)
             w1 == Check(w, GetDatasetBy(w, id, "snap", "no"))
             w2 == IF w1.err = "ok" /\ ~FsExists(w1, id.fs)
                   THEN Fail(w1, "no_such_filesystem") ELSE w1
             w3 == SnapCreate(w2, id.fs, id.snap)
             w4 == AddLocalProperties(w3, SnapObj(id.fs, id.snap), properties)
         IN  SnapshotEach(w4, Tail(ids), properties)

\* A batch that is undone as a whole when one of its entries raises.
ZfsSnapshotAllOrNothing(w, ids, properties) ==
    LET r == SnapshotEach(w, ids, properties)
    IN  IF r.err = "ok" THEN r ELSE Fail(w, r.err)

\* zfs.snapshot, its generator consumed by the caller
ZfsSnapshot(w, ids, properties) == SnapshotEach(w, ids, properties)

----------------------------------------------------------------------------
(* zpool create and zpool destroy *)

\* Each pool is given a backing directory of its own; the pool's data lies in
\* the subdirectory named after the pool, so the paths that start with the
\* pool's name are the content of its backing directory.
DiskInUse(w, P) ==
    \E d \in w.ddirs \cup w.dfiles : d[1] = P

\* Pool.create: metadata root, data directory, link, root filesystem
PoolCreate(w, P) ==
    IF w.err # "ok" THEN w
    ELSE IF DiskInUse(w, P) THEN Fail(w, "disk_in_use")
    ELSE FsCreate([w EXCEPT !.pools = @ \cup {P}, !.ddirs = @ \cup {<<P>>}],
                  <<P>>, FALSE)

\* zpool.create of pool P on the backing directory of pool D
ZpoolCreate(w, P, D) ==
    IF DiskInUse(w, D) THEN Fail(w, "disk_in_use")
    ELSE IF PoolExists(w, P) THEN Fail(w, "pool_exists")
    ELSE PoolCreate(w, P)

\* A pool destroy that removes the metadata and leaves the data behind.
PoolDestroyKeepsData(w, P) ==
    IF w.err # "ok" THEN w
    ELSE [w EXCEPT !.fsys = [F \in {G \in DOMAIN @ : PoolOf(G) # P} |-> @[F]],
                   !.pools = @ \ {P}]

\* Pool.destroy: the data directory when it is there, then the metadata root
PoolDestroy(w, P) ==
    IF w.err # "ok" THEN w
    ELSE [w EXCEPT !.ddirs = {d \in @ : d[1] # P},
                   !.dfiles = {f \in @ : f[1] # P},
                   !.fsys = [F \in {G \in DOMAIN @ : PoolOf(G) # P} |-> @[F]],
                   !.pools = @ \ {P}]

\* zpool.destroy
ZpoolDestroy(w, P) ==
    IF ~PoolExists(w, P) THEN Fail(w, "no_such_pool")
    ELSE PoolDestroy(w, P)

----------------------------------------------------------------------------
(* Filesystem.rollback_to and zfs.rollback *)

\* shutil.rmtree(self.mountpoint)
RmMount(w, F) ==
    IF w.err # "ok" THEN w
    ELSE IF ~MountExists(w, F) THEN Fail(w, "oserror")
    ELSE RmTree(w, F)

\* A restore that writes the snapshot's key files over the current ones and
\* leaves the keys set since in place.
RestorePropsMerged(w, F, snap) ==
    IF w.err # "ok" \/ ~snap.props.present THEN w
    ELSE IF ~w.fsys[F].props.present THEN Fail(w, "oserror")
    ELSE [w EXCEPT !.fsys[F].props.kv =
            [k \in (DOMAIN @) \cup (DOMAIN snap.props.kv) |->
                IF k \in DOMAIN snap.props.kv THEN snap.props.kv[k] ELSE @[k]]]

\* rmtree(self.properties) and copytree(snapshot.properties, ...), when the
\* snapshot has a properties directory
RestoreProps(w, F, snap) ==
    IF w.err # "ok" \/ ~snap.props.present THEN w
    ELSE IF ~w.fsys[F].props.present THEN Fail(w, "oserror")
    ELSE [w EXCEPT !.fsys[F].props = snap.props]

\* A rollback that moves the snapshot's data into place instead of copying it.
RollbackToMoves(w, F, S) ==
    IF w.err # "ok" THEN w
    ELSE LET snap == w.fsys[F].snaps.m[S]
             w1 == RestoreProps(PutTree(RmMount(w, F), snap.data, F), F, snap)
         IN  IF w1.err # "ok" THEN w1
             ELSE [w1 EXCEPT !.fsys[F].snaps.m[S].data = NoTree]

RollbackTo(w, F, S) ==
    IF w.err # "ok" THEN w
    ELSE LET snap == w.fsys[F].snaps.m[S]
         IN  RestoreProps(PutTree(RmMount(w, F), snap.data, F), F, snap)

ZfsRollback(w, id) ==
    LET w1 == Check(w, GetDatasetBy(w, id, "snap", "yes"))
    IN  RollbackTo(w1, id.fs, id.snap)

----------------------------------------------------------------------------
(* Filesystem.rename, Snapshot.rename and zfs.rename *)

\* os.rmdir of a directory of the backing storage
RmDir(w, P) ==
    IF w.err # "ok" THEN w
    ELSE IF P \notin w.ddirs
            \/ \E x \in w.ddirs \cup w.dfiles : x # P /\ IsPrefix(P, x)
    THEN Fail(w, "oserror")
    ELSE [w EXCEPT !.ddirs = @ \ {P}]

\* shutil.move(self.mountpoint, new_dataset.mountpoint)
MoveData(w, F, G) ==
    IF w.err # "ok" THEN w
    ELSE IF ~MountExists(w, F) \/ IsPrefix(F, G) \/ G \in w.ddirs
            \/ (Len(G) > 1 /\ Front(G) \notin w.ddirs)
    THEN Fail(w, "oserror")
    ELSE [w EXCEPT
            !.ddirs = {d \in @ : ~IsPrefix(F, d)}
                        \cup {G \o Rel(d, F) : d \in {x \in @ : IsPrefix(F, x)}},
            !.dfiles = {f \in @ : ~IsPrefix(F, f)}
                        \cup {G \o Rel(f, F) : f \in {x \in @ : IsPrefix(F, x)}}]

\* shutil.move(self.properties, new_dataset.root)
MoveProps(w, F, G) ==
    IF w.err # "ok" THEN w
    ELSE IF ~w.fsys[F].props.present \/ w.fsys[G].props.present
    THEN Fail(w, "oserror")
    ELSE [w EXCEPT !.fsys[G].props = w.fsys[F].props, !.fsys[F].props = NoProps]

\* A rename that makes the new filesystem an empty snapshots directory and
\* leaves the snapshots behind.
MoveSnapsLeftBehind(w, F, G) ==
    IF w.err # "ok" THEN w
    ELSE IF ~w.fsys[F].snaps.present \/ w.fsys[G].snaps.present
    THEN Fail(w, "oserror")
    ELSE [w EXCEPT !.fsys[G].snaps = EmptySnaps]

\* shutil.move(self.snapshots, new_dataset.root)
MoveSnaps(w, F, G) ==
    IF w.err # "ok" THEN w
    ELSE IF ~w.fsys[F].snaps.present \/ w.fsys[G].snaps.present
    THEN Fail(w, "oserror")
    ELSE [w EXCEPT !.fsys[G].snaps = w.fsys[F].snaps, !.fsys[F].snaps = NoSnaps]

FsRename(w, F, G, order) ==
    LET w1 == MakeDataLink(MakeDataDir(w, G), G)
        w2 == MoveData(RmDir(w1, G), F, G)
        w3 == MoveSnaps(MoveProps(w2, F, G), F, G)
    IN  FsDestroy(w3, F, FALSE, order)

\* os.rename(self.root, new_snapshot.root)
\* A snapshot rename that leaves the old name in place as well.
SnapRenameCopies(w, F, A, B) ==
    IF w.err # "ok" THEN w
    ELSE IF ~SnapExists(w, F, A) \/ SnapExists(w, F, B) THEN Fail(w, "oserror")
    ELSE [w EXCEPT !.fsys[F].snaps.m = Put(@, B, @[A])]

SnapRename(w, F, A, B) ==
    IF w.err # "ok" THEN w
    ELSE IF ~SnapExists(w, F, A) \/ SnapExists(w, F, B) THEN Fail(w, "oserror")
    ELSE [w EXCEPT !.fsys[F].snaps.m = Put(Del(@, A), B, @[A])]

\* The second argument of a snapshot rename: without '@' it is taken as a
\* snapshot name of the same filesystem ('/' is not allowed in that name).
SiblingTarget(id, other) ==
    IF IsSnapId(other) THEN other ELSE SnapId(id.fs, Join(other.fs))

\* A rename that does not compare the pools of its two arguments.
ZfsRenameAnyPool(w, id, other, order) ==
    LET w1 == Check(w, GetDatasetBy(w, id, "any", "yes"))
    IN  IF w1.err # "ok" THEN w1
        ELSE IF IsSnapId(id)
        THEN LET target == SiblingTarget(id, other)
                 w2 == IF ~IsSnapId(other) /\ Len(other.fs) > 1
                       THEN Fail(w1, "invalid_name")
                       ELSE Check(w1, GetDatasetBy(w1, target, "snap", "no"))
                 w3 == IF w2.err = "ok" /\ id.fs # target.fs
                       THEN Fail(w2, "mismatched_filesystems") ELSE w2
             IN  SnapRename(w3, id.fs, id.snap, target.snap)
        ELSE FsRename(Check(w1, GetDatasetBy(w1, other, "fs", "no")),
                      id.fs, other.fs, order)

ZfsRename(w, id, other, order) ==
    LET w1 == Check(w, GetDatasetBy(w, id, "any", "yes"))
    IN  IF w1.err # "ok" THEN w1
        ELSE IF IsSnapId(id)
        THEN LET target == SiblingTarget(id, other)
                 w2 == IF ~IsSnapId(other) /\ Len(other.fs) > 1
                       THEN Fail(w1, "invalid_name")
                       ELSE Check(w1, GetDatasetBy(w1, target, "snap", "no"))
                 w3 == IF w2.err = "ok" /\ id.fs # target.fs
                       THEN Fail(w2, "mismatched_filesystems") ELSE w2
             IN  SnapRename(w3, id.fs, id.snap, target.snap)
        ELSE LET w2 == Check(w1, GetDatasetBy(w1, other, "fs", "no"))
                 w3 == IF w2.err = "ok" /\ PoolOf(id.fs) # PoolOf(other.fs)
                       THEN Fail(w2, "different_pool") ELSE w2
             IN  FsRename(w3, id.fs, other.fs, order)

----------------------------------------------------------------------------
(* Snapshot.clone_to, zfs.clone and zfs.promote *)

\* os.rmdir(new_filesystem.properties)
RmPropsDir(w, G) ==
    IF w.err # "ok" THEN w
    ELSE IF ~w.fsys[G].props.present \/ DOMAIN w.fsys[G].props.kv # {}
    THEN Fail(w, "oserror")
    ELSE [w EXCEPT !.fsys[G].props = NoProps]

\* shutil.copytree(self.properties, new_filesystem.properties)
CopyPropsFromSnap(w, snap, G) ==
    IF w.err # "ok" THEN w
    ELSE IF ~snap.props.present \/ w.fsys[G].props.present
    THEN Fail(w, "oserror")
    ELSE [w EXCEPT !.fsys[G].props = snap.props]

CloneTo(w, F, S, G) ==
    IF w.err # "ok" THEN w
    ELSE LET snap == w.fsys[F].snaps.m[S]
             w1 == FsCreate(w, G, FALSE)
             w2 == RmPropsDir(RmDir(w1, G), G)
         IN  CopyPropsFromSnap(PutTree(w2, snap.data, G), snap, G)

ZfsClone(w, id, other) ==
    LET w1 == Check(w, GetDatasetBy(w, id, "snap", "yes"))
        w2 == Check(w1, GetDatasetBy(w1, other, "fs", "no"))
        w3 == CloneTo(w2, id.fs, id.snap, other.fs)
    IN  AddLocalProperty(w3, FsObj(other.fs), "origin",
                         Join(id.fs) \o "@" \o id.snap)

\* A promote that empties the properties directory of the clone.
ZfsPromoteClearsAll(w, id) ==
    LET w1 == Check(w, GetDatasetBy(w, id, "fs", "yes"))
    IN  IF w1.err # "ok" THEN w1
        ELSE [w1 EXCEPT !.fsys[id.fs].props.kv = EmptyMap]

ZfsPromote(w, id) ==
    LET w1 == Check(w, GetDatasetBy(w, id, "fs", "yes"))
    IN  RemoveLocalProperty(w1, FsObj(id.fs), "origin")

----------------------------------------------------------------------------
(* Snapshot.to_stream, Filesystem.create from a stream, zfs.send/receive *)

\* A tar member: its path in the archive, whether it is a directory, and the
\* content of a file.
Member(path, isdir, content) ==
    [path |-> path, isdir |-> isdir, content |-> content]

\* t.add(self.root, arcname=self.name): the snapshot directory, recursively.
ToStream(snap, S) ==
    [valid |-> TRUE,
     members |->
        {Member(<<S>>, TRUE, "")}
        \cup (IF snap.data.present
              THEN {Member(<<S, "data">> \o d, TRUE, "") : d \in snap.data.dirs}
                   \cup {Member(<<S, "data">> \o f, FALSE, "") :
                            f \in snap.data.files}
              ELSE {})
        \cup (IF snap.props.present
              THEN {Member(<<S, "properties">>, TRUE, "")}
                   \cup {Member(<<S, "properties", k>>, FALSE, snap.props.kv[k]) :
                            k \in DOMAIN snap.props.kv}
              ELSE {})]

\* What is not a gzipped tar.
BadStream == [valid |-> FALSE, members |-> {}]

\* t.extractall(self.snapshots): the snapshot directories the members make.
Extracted(members) ==
    LET tops == {m.path[1] : m \in members}
        under(S, sub) == {m \in members :
                            /\ Len(m.path) >= 2
                            /\ m.path[1] = S
                            /\ m.path[2] = sub}
    IN  [S \in tops |->
           [data |->
              IF under(S, "data") = {} THEN NoTree
              ELSE [present |-> TRUE,
                    dirs |-> {Rel(m.path, <<S, "data">>) :
                                m \in {x \in under(S, "data") : x.isdir}},
                    files |-> {Rel(m.path, <<S, "data">>) :
                                m \in {x \in under(S, "data") : ~x.isdir}}],
            props |->
              IF under(S, "properties") = {} THEN NoProps
              ELSE [present |-> TRUE,
                    kv |-> [k \in {m.path[3] :
                                    m \in {x \in under(S, "properties") :
                                             ~x.isdir}} |->
                              (CHOOSE m \in members :
                                 m.path = <<S, "properties", k>>).content]]]]

\* The try block of Filesystem.create: unpack, then roll back to the first
\* entry of the snapshots directory.
Unpack(w, G, stream) ==
    IF w.err # "ok" THEN w
    ELSE IF ~stream.valid THEN Fail(w, "not_gzip")
    ELSE LET got == Extracted(stream.members)
             w1 == [w EXCEPT !.fsys[G].snaps.m =
                      [S \in (DOMAIN @) \cup (DOMAIN got) |->
                         IF S \in DOMAIN got THEN got[S] ELSE @[S]]]
         IN  IF DOMAIN w1.fsys[G].snaps.m = {} THEN Fail(w1, "index_error")
             ELSE RollbackTo(w1, G, CHOOSE S \in DOMAIN w1.fsys[G].snaps.m : TRUE)

\* Filesystem.create(from_stream=...): on any exception of the try block the
\* filesystem is destroyed and the exception re-raised as a ZzzFSException.
FsCreateFromStream(w, G, stream, order) ==
    LET w1 == FsCreate(w, G, FALSE)
        w2 == Unpack(w1, G, stream)
    IN  IF w1.err # "ok" \/ w2.err = "ok" THEN w2
        ELSE LET w3 == FsDestroy([w2 EXCEPT !.err = "ok"], G, FALSE, order)
             IN  IF w3.err = "ok" THEN Fail(w3, "stream_error") ELSE w3

ZfsReceive(w, id, stream, order) ==
    LET w1 == Check(w, GetDatasetBy(w, id, "fs", "no"))
    IN  FsCreateFromStream(w1, id.fs, stream, order)

ZfsSend(w, id) == Check(w, GetDatasetBy(w, id, "snap", "yes"))

----------------------------------------------------------------------------
(* zfs.diff: the lines of the comparison of two data directories *)

\* filecmp.dircmp, recursively: entries of one side only, below directories
\* that both sides have.
DiffLines(l, r) ==
    LET both == l.dirs \cap r.dirs
        ents(t) == {e \in t.dirs \cup t.files : e # <<>> /\ Front(e) \in both}
    IN  {<<"-", e>> : e \in ents(l) \ ents(r)}
          \cup {<<"+", e>> : e \in ents(r) \ ents(l)}

\* The data directory of a dataset as a tree.
DataTree(w, id) ==
    IF IsSnapId(id) THEN w.fsys[id.fs].snaps.m[id.snap].data
    ELSE IF MountExists(w, id.fs) THEN TreeAt(w, id.fs)
    ELSE NoTree

ZfsDiff(w, id, other) ==
    LET w1 == Check(w, GetDatasetBy(w, id, "snap", "yes"))
        w2 == Check(w1, GetDatasetBy(w1, other, "any", "yes"))
    IN  IF w2.err # "ok" THEN w2
        ELSE IF ~DataTree(w2, id).present \/ ~DataTree(w2, other).present
        THEN Fail(w2, "oserror")
        ELSE w2

DiffOutput(w, id, other) ==
    IF ZfsDiff(w, id, other).err = "ok"
    THEN DiffLines(DataTree(w, id), DataTree(w, other)) ELSE {}

----------------------------------------------------------------------------
(* The commands as actions *)

\* The orders in which a directory listing can return the names in S.
Listings(S) ==
    {o \in [1..Cardinality(S) -> S] : \A i, j \in DOMAIN o : i # j => o[i] # o[j]}
\* The filesystems a destroy of F looks at, in every listing order.
ListingsBelow(F) ==
    Listings({G \in DOMAIN fsys : Len(G) > Len(F) /\ IsPrefix(F, G)})

PropLists == {<<>>} \cup {<<(<<k, v>>)>> : k \in Keys, v \in {"1"}}
FsIds == {FsId(F) : F \in FsNames}
SnapIds == {SnapId(F, S) : F \in FsNames, S \in SnapNames}
AllIds == FsIds \cup SnapIds
\* A bare snapshot name as second argument of rename.
BareIds == {FsId(<<S>>) : S \in SnapNames}
\* The batches of zfs snapshot.
Batches == {<<id>> : id \in SnapIds}
\* The streams a receive can read: what a send of an existing snapshot
\* writes, or something that is no archive.
Streams ==
    {BadStream} \cup
    UNION {{ToStream(fsys[F].snaps.m[S], S) :
                S \in {x \in SnapNames : SnapExists(World, F, x)}} :
             F \in DOMAIN fsys}

\* What `get` reports for a key of a dataset ahead of a command on it.
Seen(id, key) ==
    IF DsExists(World, id) THEN GetPropertyAndSource(World, ObjOf(id), key)
    ELSE NotFound

\* A command as `last` records it: `pre` is what `get` reported ahead of a
\* set or an inherit for its key and ahead of a promote for origin, `follows`
\* is whether an inherit comes right after a set of the same key on the same
\* dataset, a rollback right after a rollback to the same snapshot, or a
\* create right after a destroy of the same filesystem.
Cmd(op, a, b, flag, kvs) ==
    [op |-> op, a |-> a, b |-> b, flag |-> flag, kvs |-> kvs, err |-> "ok",
     pre |-> IF op \in {"set", "inherit", "remove_local"} THEN Seen(a, kvs[1][1])
             ELSE IF op = "promote" THEN Seen(a, "origin")
             ELSE NotFound,
     follows |-> IF op = "inherit"
                 THEN /\ last.op = "set" /\ last.err = "ok" /\ last.a = a
                      /\ last.kvs[1][1] = kvs[1][1]
                 ELSE IF op = "rollback"
                 THEN last.op = "rollback" /\ last.err = "ok" /\ last.a = a
                 ELSE IF op = "create"
                 THEN last.op = "destroy" /\ last.err = "ok" /\ last.a = a
                 ELSE FALSE]

\* The history variable `mark` remembers the files and the local properties a
\* filesystem had when the last snapshot command took a snapshot of it, and
\* the properties given to that command, for as long as nothing happens but
\* file changes in that filesystem, set and inherit on it, and rollbacks to
\* that snapshot; `changed` tells whether any such change has happened.
NoMark == [id |-> NoId, files |-> {}, props |-> EmptyMap, kvs |-> <<>>,
           changed |-> FALSE]
KeepsMark(cmd) ==
    /\ mark # NoMark
    /\ \/ cmd.op \in {"addfile", "rmfile"} /\ IsPrefix(mark.id.fs, cmd.a.fs)
       \/ cmd.op \in {"set", "inherit"} /\ cmd.a = FsId(mark.id.fs)
       \/ cmd.op = "rollback" /\ cmd.a = mark.id
NextMark(w, cmd) ==
    IF cmd.op = "snapshot" /\ w.err = "ok"
    THEN [id |-> cmd.a, files |-> TreeAt(World, cmd.a.fs).files,
          props |-> fsys[cmd.a.fs].props.kv, kvs |-> cmd.kvs,
          changed |-> FALSE]
    ELSE IF KeepsMark(cmd)
    THEN [mark EXCEPT !.changed = @ \/ cmd.op # "rollback"]
    ELSE NoMark

\* A command ends in storage w.  A command that changed nothing closes the
\* run: what follows it is what follows the state it started in.
CommitStorage(w, cmd) ==
    /\ pools' = w.pools
    /\ fsys' = w.fsys
    /\ ddirs' = w.ddirs
    /\ dfiles' = w.dfiles
    /\ last' = [cmd EXCEPT !.err = w.err]
    /\ mark' = NextMark(w, cmd)
    /\ lister' = lister
    /\ procs' = procs
    /\ nops' = IF <<w.pools, w.fsys, w.ddirs, w.dfiles>>
                    = <<pools, fsys, ddirs, dfiles>>
               THEN MaxOps ELSE nops + 1

\* A call of a function of zfs.py or zpool.py: the pools' history files are
\* written by the command-line entry points alone.
Commit(w, cmd) ==
    /\ CommitStorage(w, cmd)
    /\ history' = history

Create ==
    /\ nops < MaxOps
    /\ \E F \in FsNames, p \in BOOLEAN, kvs \in PropLists :
           Commit(ZfsCreate(World, F, p, kvs), Cmd("create", FsId(F), NoId, p, kvs))

Destroy ==
    /\ nops < MaxOps
    /\ \E id \in AllIds, r \in BOOLEAN :
           \E o \in ListingsBelow(id.fs) :
               Commit(ZfsDestroy(World, id, r, o), Cmd("destroy", id, NoId, r, o))

Set ==
    /\ nops < MaxOps
    /\ \E id \in AllIds, k \in Keys, v \in Vals :
           Commit(ZfsSet(World, k, v, id), Cmd("set", id, NoId, FALSE, <<(<<k, v>>)>>))

Inherit ==
    /\ nops < MaxOps
    /\ \E id \in AllIds, k \in Keys :
           Commit(ZfsInherit(World, k, id),
                  Cmd("inherit", id, NoId, FALSE, <<(<<k, "">>)>>))

Snapshot ==
    /\ nops < MaxOps
    /\ \E ids \in Batches, kvs \in PropLists :
           Commit(ZfsSnapshot(World, ids, kvs),
                  Cmd("snapshot", ids[1], ids, FALSE, kvs))

Rollback ==
    /\ nops < MaxOps
    /\ \E id \in AllIds :
           Commit(ZfsRollback(World, id), Cmd("rollback", id, NoId, FALSE, <<>>))

\* Targets of a filesystem rename that lie in the other pool.
OtherPoolIds == {FsId(<<"bar">>), FsId(<<"bar", "a">>)}
Rename ==
    /\ nops < MaxOps
    /\ \E id \in AllIds :
       \E other \in AllIds \cup BareIds
                     \cup (IF IsSnapId(id) THEN {} ELSE OtherPoolIds) :
           \E o \in ListingsBelow(id.fs) :
               Commit(ZfsRename(World, id, other, o),
                      Cmd("rename", id, other, FALSE, o))

Clone ==
    /\ nops < MaxOps
    /\ \E id \in AllIds, other \in FsIds :
           Commit(ZfsClone(World, id, other), Cmd("clone", id, other, FALSE, <<>>))

Promote ==
    /\ nops < MaxOps
    /\ \E id \in FsIds :
           Commit(ZfsPromote(World, id), Cmd("promote", id, NoId, FALSE, <<>>))

Send ==
    /\ nops < MaxOps
    /\ \E id \in AllIds :
           Commit(ZfsSend(World, id), Cmd("send", id, NoId, FALSE, <<>>))

Receive ==
    /\ nops < MaxOps
    /\ \E id \in FsIds, stream \in Streams :
           \E o \in ListingsBelow(id.fs) :
               Commit(ZfsReceive(World, id, stream, o),
                      Cmd("receive", id, NoId, stream.valid, stream.members))

Diff ==
    /\ nops < MaxOps
    /\ \E id \in SnapIds, other \in AllIds :
           Commit(ZfsDiff(World, id, other), Cmd("diff", id, other, FALSE, <<>>))

\* zfs snapshot with several names on the command line.
BatchesUpTo(n) == UNION {[1..k -> SnapIds] : k \in 1..n}
SnapshotBatch ==
    /\ nops < MaxOps
    /\ \E ids \in BatchesUpTo(MaxBatch), kvs \in PropLists :
           Commit(ZfsSnapshot(World, ids, kvs),
                  Cmd("snapshot", ids[1], ids, FALSE, kvs))

\* zpool create NAME DISK and zpool destroy NAME
PoolArgs == {"foo", "bar"}
\* A pool is created on its own backing directory, or tried on a directory
\* that another pool uses.
ZpoolCreateCmd ==
    /\ nops < MaxOps
    /\ \E P \in PoolArgs, D \in PoolArgs :
           /\ D = P \/ DiskInUse(World, D)
           /\ Commit(ZpoolCreate(World, P, D),
                     Cmd("zpool_create", FsId(<<P>>), FsId(<<D>>), FALSE, <<>>))
ZpoolDestroyCmd ==
    /\ nops < MaxOps
    /\ \E P \in PoolArgs :
           Commit(ZpoolDestroy(World, P),
                  Cmd("zpool_destroy", FsId(<<P>>), NoId, FALSE, <<>>))

\* A user writes a file into a directory below a pool's backing directory,
\* making the directory first when it is missing, or removes a file.
AddFile ==
    \E d \in FsNames :
        /\ nops < MaxOps
        /\ <<PoolOf(d)>> \in ddirs
        /\ Append(d, FileName) \notin dfiles
        /\ Commit([World EXCEPT !.ddirs = @ \cup Prefixes(d),
                                !.dfiles = @ \cup {Append(d, FileName)}],
                  Cmd("addfile", FsId(d), NoId, FALSE, <<>>))

RemoveFile ==
    \E f \in dfiles :
        /\ nops < MaxOps
        /\ Commit([World EXCEPT !.dfiles = @ \ {f}],
                  Cmd("rmfile", FsId(Front(f)), NoId, FALSE, <<>>))

\* Pool.create for pool "foo" on an empty disk: the pool directory, the
\* backing directory <disk>/foo and the root filesystem.
InitWorld ==
    FsCreate([pools |-> {"foo"}, fsys |-> EmptyMap, ddirs |-> {<<"foo">>},
              dfiles |-> {}, err |-> "ok"], <<"foo">>, FALSE)

\* The history files of the pools: the records of each, oldest first.  The
\* runs of library calls start without records.
NoHistory == [P \in {"foo", "bar"} |-> <<>>]

\* No command is under way step by step.
NoProcs == <<>>

\* The process running `zzzfs list` has not started.
Idle == [pc |-> "idle", todo |-> {}, cur |-> NoId, keys |-> {}]

\* The new pool after `zfs set x=1 foo` and `zfs create -p foo/a/b`.
TreeWorld ==
    ZfsCreate(ZfsSet(InitWorld, "x", "1", FsId(<<"foo">>)),
              <<"foo", "a", "b">>, TRUE, <<>>)

Init ==
    /\ \E w \in {InitWorld, TreeWorld} :
          /\ pools = w.pools
          /\ fsys = w.fsys
          /\ ddirs = w.ddirs
          /\ dfiles = w.dfiles
    /\ last = [op |-> "init", a |-> NoId, b |-> NoId, flag |-> FALSE,
               kvs |-> <<>>, err |-> "ok", pre |-> NotFound, follows |-> FALSE]
    /\ nops = 0
    /\ mark = NoMark
    /\ lister = Idle
    /\ history = NoHistory
    /\ procs = NoProcs

Next ==
    \/ Create
    \/ Destroy
    \/ Set
    \/ Inherit
    \/ Snapshot
    \/ Rollback
    \/ Rename
    \/ Clone
    \/ Promote
    \/ Send
    \/ Receive
    \/ Diff
    \/ AddFile
    \/ RemoveFile

Spec == Init /\ [][Next]_vars

\* Runs of batched snapshot commands, between creates, destroys and file
\* changes.
NextBatch ==
    \/ SnapshotBatch
    \/ Create
    \/ Destroy
    \/ AddFile

SpecBatch == Init /\ [][NextBatch]_vars

----------------------------------------------------------------------------
(* get_dataset_by on identifiers, character by character *)

\* Identifiers are sequences of characters: a letter, two of the permitted
\* punctuation marks, the two separators and a forbidden character.
Chars == {"a", "_", ".", "/", "@", "!"}
Identifiers == UNION {[1..n -> Chars] : n \in 0..MaxIdLen}
\* str.isalnum() on the characters above
IsAlnum(c) == c = "a"
Count(str, c) == Cardinality({i \in DOMAIN str : str[i] = c})

\* util.validate_component_name
ValidateComponentName(name, allowSlashes) ==
    LET allowed == {"_", "-", ":", "."} \cup (IF allowSlashes THEN {"/"} ELSE {})
    IN  /\ Len(name) # 0
        /\ IsAlnum(name[1])
        /\ \A i \in DOMAIN name : name[i] \in allowed \/ IsAlnum(name[i])

\* dataset_name.split('@', 1) of a name with one '@'
BeforeAt(name) ==
    SubSeq(name, 1, (CHOOSE i \in DOMAIN name : name[i] = "@") - 1)
AfterAt(name) ==
    SubSeq(name, (CHOOSE i \in DOMAIN name : name[i] = "@") + 1, Len(name))
\* The pool a Filesystem object finds by walking up its name: the part
\* before the first '/'.
PoolNameOf(name) ==
    IF Count(name, "/") = 0 THEN name
    ELSE SubSeq(name, 1, (CHOOSE i \in DOMAIN name :
                              name[i] = "/" /\ \A j \in 1..(i - 1) : name[j] # "/") - 1)

\* The datasets the identifiers are resolved against: pool a with the
\* filesystems a and a/a and the snapshot a@a.
IdentPools == {<<"a">>}
IdentFilesystems == {<<"a">>, <<"a", "/", "a">>}
IdentSnapshots == {<<(<<"a">>), (<<"a">>)>>}

Rejected(e) == [err |-> e, kind |-> "none", fs |-> <<>>, snap |-> <<>>]

\* get_dataset_by(dataset_name, should_be, should_exist)
GetDatasetByName(name, shouldBe, shouldExist) ==
    LET one == Count(name, "@") = 1
        filesystemName == IF one THEN BeforeAt(name) ELSE name
        snapshotName == IF one THEN AfterAt(name) ELSE <<>>
        obj == IF snapshotName # <<>>
               THEN [err |-> "ok", kind |-> "Snapshot",
                     fs |-> filesystemName, snap |-> snapshotName]
               ELSE [err |-> "ok", kind |-> "Filesystem",
                     fs |-> name, snap |-> <<>>]
        exists == IF obj.kind = "Snapshot"
                  THEN <<obj.fs, obj.snap>> \in IdentSnapshots
                  ELSE obj.fs \in IdentFilesystems
    IN  IF ~ValidateComponentName(filesystemName, TRUE)
        THEN Rejected("invalid_identifier")
        ELSE IF snapshotName # <<>> /\ ~ValidateComponentName(snapshotName, FALSE)
        THEN Rejected("invalid_snapshot_name")
        ELSE IF shouldBe = "fs" /\ obj.kind # "Filesystem"
        THEN Rejected("not_a_filesystem")
        ELSE IF shouldBe = "snap" /\ obj.kind # "Snapshot"
        THEN Rejected("not_a_snapshot")
        ELSE IF shouldExist = "yes" /\ ~exists THEN Rejected("no_such_dataset")
        ELSE IF shouldExist = "no" /\ exists THEN Rejected("dataset_exists")
        ELSE IF PoolNameOf(obj.fs) \notin IdentPools THEN Rejected("no_such_pool")
        ELSE obj

\* A command hands an identifier to the resolver.
ResolveName ==
    /\ nops < MaxOps
    /\ \E name \in Identifiers, shouldBe \in {"any", "fs", "snap"},
          shouldExist \in {"none", "yes", "no"} :
           last' = [op |-> "resolve", name |-> name, shouldBe |-> shouldBe,
                    shouldExist |-> shouldExist,
                    got |-> GetDatasetByName(name, shouldBe, shouldExist)]
    /\ nops' = MaxOps
    /\ UNCHANGED <<pools, fsys, ddirs, dfiles, mark, lister, history, procs>>

\* zpool.create(pool_name, disk) on an empty disk, among the pools
\* `existing`: Pool(pool_name, should_exist=False) looks the name up in the
\* listing of the root directory, and Pool.create makes the pool's
\* directory, which for the empty name and for '.' is the root directory
\* itself and for '..' the directory above it.
ZpoolCreateName(existing, name) ==
    IF name \in existing THEN [err |-> "pool_exists", pools |-> existing]
    ELSE IF name \in {<<>>, <<".">>, <<".", ".">>}
    THEN [err |-> "oserror", pools |-> existing]
    ELSE [err |-> "ok", pools |-> existing \cup {name}]

\* zzzpool create NAME DISK, for the names without a slash.
CreatePoolNamed ==
    /\ nops < MaxOps
    /\ \E name \in {n \in Identifiers : Count(n, "/") = 0} :
           last' = [op |-> "zpool_create_name", name |-> name,
                    got |-> ZpoolCreateName(IdentPools, name)]
    /\ nops' = MaxOps
    /\ UNCHANGED <<pools, fsys, ddirs, dfiles, mark, lister, history, procs>>

NextIdent == ResolveName \/ CreatePoolNamed

SpecIdent == Init /\ [][NextIdent]_vars

----------------------------------------------------------------------------
(* The names of the entries in a pool's filesystems directory *)

\* Names over a letter, a permitted punctuation mark, the separator and the
\* character the separator is escaped to.
MaxNameLen == 3
SafeChars == {"a", "_", "/", "%"}
SafeNames == UNION {[1..n -> SafeChars] : n \in 0..MaxNameLen}

\* An escape to a character that names may hold.
SafeNameUnderscore(name) ==
    [i \in DOMAIN name |-> IF name[i] = "/" THEN "_" ELSE name[i]]

\* self.name.replace('/', '%')
SafeName(name) ==
    [i \in DOMAIN name |-> IF name[i] = "/" THEN "%" ELSE name[i]]
\* x.replace('%', '/')
UnsafeName(x) ==
    [i \in DOMAIN x |-> IF x[i] = "%" THEN "/" ELSE x[i]]
\* Pool.get_filesystems on the directory entries `entries`
GetFilesystems(entries) == {UnsafeName(x) : x \in entries}

\* Two filesystems are given their directory entries, and the directory is
\* listed.
EscapeNames ==
    /\ nops < MaxOps
    /\ \E name \in SafeNames, other \in SafeNames :
           last' = [op |-> "safe_name", name |-> name, other |-> other,
                    safe |-> SafeName(name), otherSafe |-> SafeName(other),
                    listed |-> GetFilesystems({SafeName(name), SafeName(other)})]
    /\ nops' = MaxOps
    /\ UNCHANGED <<pools, fsys, ddirs, dfiles, mark, lister, history, procs>>

NextSafeName == EscapeNames

SpecSafeName == Init /\ [][NextSafeName]_vars

----------------------------------------------------------------------------
(* Filesystem.get_children and Filesystem.destroy on names as strings *)

\* The filesystems of pool a that may exist, as strings: a/a and a/aa share
\* a string prefix, and each has a child of its own.
ChildNames == {<<"a">>, <<"a", "/", "a">>, <<"a", "/", "a", "a">>,
               <<"a", "/", "a", "/", "a">>, <<"a", "/", "a", "a", "/", "a">>}
MaxDepth == 2
\* The orders in which Pool.get_filesystems may list the directory.
NameOrders ==
    {o \in [1..Cardinality(ChildNames) -> ChildNames] :
        \A i, j \in DOMAIN o : o[i] = o[j] => i = j}

\* str.startswith(pre)
StartsWith(str, pre) ==
    Len(pre) <= Len(str) /\ SubSeq(str, 1, Len(pre)) = pre

\* A filter on the name alone, without the '/' after it.
GetChildrenByPrefix(names, name, maxDepth) ==
    LET children == {f \in names : StartsWith(f, name) /\ f # name}
    IN  IF maxDepth > 0
        THEN {f \in children : Count(f, "/") <= maxDepth + Count(name, "/")}
        ELSE children

\* Filesystem.get_children(max_depth) among the filesystems `names` of the
\* pool; the result is a list in listing order, taken here as a set.
GetChildren(names, name, maxDepth) ==
    LET children == {f \in names : StartsWith(f, name \o <<"/">>)}
    IN  IF maxDepth > 0
        THEN {f \in children : Count(f, "/") <= maxDepth + Count(name, "/")}
        ELSE children

\* Filesystem.destroy(recursive) on the set of existing names: the error and
\* the names that are left.
RECURSIVE DestroyName(_, _, _, _)
RECURSIVE DestroyEachName(_, _, _, _)
DestroyName(r, name, recursive, order) ==
    IF r.err # "ok" THEN r
    ELSE LET dependencies ==
                 SelectSeq(order, LAMBDA f :
                     f \in r.names /\ StartsWith(f, name \o <<"/">>))
         IN  IF Len(dependencies) > 0 /\ ~recursive
             THEN [r EXCEPT !.err = "has_children"]
             ELSE IF name \notin r.names THEN [r EXCEPT !.err = "oserror"]
             ELSE DestroyEachName([r EXCEPT !.names = @ \ {name}],
                                  dependencies, recursive, order)
DestroyEachName(r, deps, recursive, order) ==
    IF r.err # "ok" \/ deps = <<>> THEN r
    ELSE DestroyEachName(DestroyName(r, Head(deps), recursive, order),
                         Tail(deps), recursive, order)

\* zfs.destroy(filesystem, recursive)
ZfsDestroyName(names, name, recursive, order) ==
    IF name \notin names THEN [err |-> "no_such_dataset", names |-> names]
    ELSE DestroyName([err |-> "ok", names |-> names], name, recursive, order)

\* A command asks for the children of a filesystem.
ChildrenOf ==
    /\ nops < MaxOps
    /\ \E names \in SUBSET ChildNames, name \in ChildNames, d \in 0..MaxDepth :
           last' = [op |-> "children", names |-> names, name |-> name,
                    depth |-> d, got |-> GetChildren(names, name, d)]
    /\ nops' = MaxOps
    /\ UNCHANGED <<pools, fsys, ddirs, dfiles, mark, lister, history, procs>>

DestroyByName ==
    /\ nops < MaxOps
    /\ \E names \in SUBSET ChildNames, name \in ChildNames,
          recursive \in BOOLEAN, order \in NameOrders :
           last' = [op |-> "destroy_name", names |-> names, name |-> name,
                    recursive |-> recursive,
                    got |-> ZfsDestroyName(names, name, recursive, order)]
    /\ nops' = MaxOps
    /\ UNCHANGED <<pools, fsys, ddirs, dfiles, mark, lister, history, procs>>

NextChildren == ChildrenOf \/ DestroyByName

SpecChildren == Init /\ [][NextChildren]_vars

----------------------------------------------------------------------------
(* zzzfs list in one process while other processes run commands *)

\* Filesystem.get_snapshots: the names in the snapshots directory, none when
\* the directory is missing.
SnapsOf(w, F) == IF w.fsys[F].snaps.present THEN DOMAIN w.fsys[F].snaps.m ELSE {}
\* get_all_datasets without identifiers: Pool.all, get_filesystems of each
\* pool and get_snapshots of each filesystem, each listdir guarded by
\* `except OSError`.
AllDatasets(w) ==
    LET filesystems == {F \in DOMAIN w.fsys : PoolOf(F) \in w.pools}
    IN  {FsId(F) : F \in filesystems}
        \cup UNION {{SnapId(F, S) : S \in SnapsOf(w, F)} : F \in filesystems}
\* The key files os.listdir(self.properties) returns; none on OSError.
KeyFiles(w, id) ==
    LET d == ObjOf(id)
    IN  IF DsExists(w, id) /\ PropsDir(w, d).present
        THEN DOMAIN PropsDir(w, d).kv ELSE {}

\* The lister collects the datasets.
ListDatasets ==
    /\ lister.pc = "idle"
    /\ lister' = [pc |-> "datasets",
                  todo |-> AllDatasets(World),
                  cur |-> NoId, keys |-> {}]
    /\ UNCHANGED <<pools, fsys, ddirs, dfiles, last, nops, mark, history, procs>>

\* get_local_properties of the next dataset: os.listdir(self.properties)
ListProperties ==
    /\ lister.pc = "datasets" /\ lister.keys = {}
    /\ IF lister.todo = {}
       THEN lister' = [lister EXCEPT !.pc = "done", !.cur = NoId]
       ELSE \E id \in lister.todo :
               lister' = [lister EXCEPT !.todo = @ \ {id}, !.cur = id,
                                        !.keys = KeyFiles(World, id)]
    /\ UNCHANGED <<pools, fsys, ddirs, dfiles, last, nops, mark, history, procs>>

\* get_local_properties: open(os.path.join(self.properties, key)) of a key
\* the listing returned; the open is not guarded.
ReadProperty ==
    /\ lister.pc = "datasets" /\ lister.keys # {}
    /\ \E k \in lister.keys :
           lister' = IF k \in KeyFiles(World, lister.cur)
                     THEN [lister EXCEPT !.keys = @ \ {k}]
                     ELSE [lister EXCEPT !.pc = "failed"]
    /\ UNCHANGED <<pools, fsys, ddirs, dfiles, last, nops, mark, history, procs>>

NextList ==
    \/ ListDatasets
    \/ ListProperties
    \/ ReadProperty
    \/ ZpoolCreateCmd
    \/ ZpoolDestroyCmd
    \/ Create
    \/ Destroy
    \/ Snapshot

SpecList == Init /\ [][NextList]_vars

----------------------------------------------------------------------------
(* Dataset.remove_local_property called on any dataset with any key *)

\* The keys handed to remove_local_property: user keys and a built-in one.
RemovableKeys == Keys \cup {"name"}
\* What remove_local_property returns when it raises nothing.
RemoveLocalReturns(w, d, key) == GetPropertyAndSource(w, d, key).source = "local"

RemoveLocal ==
    /\ nops < MaxOps
    /\ \E id \in AllIds, k \in RemovableKeys :
           /\ DsExists(World, id)
           /\ Commit(RemoveLocalProperty(World, ObjOf(id), k),
                     Cmd("remove_local", id, NoId,
                         RemoveLocalReturns(World, ObjOf(id), k), <<(<<k, "">>)>>))

NextProps ==
    \/ RemoveLocal
    \/ Set
    \/ Inherit
    \/ Create
    \/ Snapshot

SpecProps == Init /\ [][NextProps]_vars

\* zfs set and zfs inherit with any key the command line accepts: a user
\* key or the name of a built-in attribute.
PropertyKeys == Keys \cup {"name"}
SetKey ==
    /\ nops < MaxOps
    /\ \E id \in AllIds, k \in PropertyKeys, v \in Vals :
           Commit(ZfsSet(World, k, v, id), Cmd("set", id, NoId, FALSE, <<(<<k, v>>)>>))
InheritKey ==
    /\ nops < MaxOps
    /\ \E id \in AllIds, k \in PropertyKeys :
           Commit(ZfsInherit(World, k, id),
                  Cmd("inherit", id, NoId, FALSE, <<(<<k, "">>)>>))

NextName ==
    \/ SetKey
    \/ InheritKey
    \/ Create
    \/ Snapshot

SpecName == Init /\ [][NextName]_vars

\* The new pool after `zfs set x=1 foo`, `zfs create foo/a`, a file written
\* into foo and `zfs snapshot foo@s`.
SnapWorld ==
    LET w1 == ZfsCreate(ZfsSet(InitWorld, "x", "1", FsId(<<"foo">>)),
                        <<"foo", "a">>, FALSE, <<>>)
        w2 == [w1 EXCEPT !.dfiles = @ \cup {<<"foo", FileName>>}]
    IN  ZfsSnapshot(w2, <<SnapId(<<"foo">>, "s")>>, <<>>)

InitRollback ==
    /\ pools = SnapWorld.pools
    /\ fsys = SnapWorld.fsys
    /\ ddirs = SnapWorld.ddirs
    /\ dfiles = SnapWorld.dfiles
    /\ last = [op |-> "init", a |-> NoId, b |-> NoId, flag |-> FALSE,
               kvs |-> <<>>, err |-> "ok", pre |-> NotFound, follows |-> FALSE]
    /\ nops = 0
    /\ mark = NoMark
    /\ lister = Idle
    /\ history = NoHistory
    /\ procs = NoProcs

\* Rollbacks between the commands and file changes they undo.
NextRollback ==
    \/ Rollback
    \/ Snapshot
    \/ Set
    \/ Inherit
    \/ Create
    \/ AddFile
    \/ RemoveFile

SpecRollback == InitRollback /\ [][NextRollback]_vars

----------------------------------------------------------------------------
(* get_all_datasets with identifiers, types, recursive and max_depth *)

\* Filesystem.get_children(max_depth), in listing order
GetChildrenOf(w, F, maxDepth, order) ==
    LET children == Dependencies(w, F, order)
    IN  IF maxDepth > 0
        THEN SelectSeq(children, LAMBDA G : Len(G) - 1 <= maxDepth + (Len(F) - 1))
        ELSE children

\* Filesystem.get_snapshots, in listing order
GetSnapshots(w, F, sorder) ==
    LET snaps == SelectSeq(sorder, LAMBDA S : F \in DOMAIN w.fsys /\ S \in SnapsOf(w, F))
    IN  [i \in 1..Len(snaps) |-> SnapId(F, snaps[i])]

\* children += d.get_children(max_depth) for every filesystem d of datasets
RECURSIVE ChildrenOfEach(_, _, _, _)
ChildrenOfEach(w, datasets, maxDepth, order) ==
    IF datasets = <<>> THEN <<>>
    ELSE LET d == Head(datasets)
             mine == IF IsSnapId(d) THEN <<>>
                     ELSE LET c == GetChildrenOf(w, d.fs, maxDepth, order)
                          IN  [i \in 1..Len(c) |-> FsId(c[i])]
         IN  mine \o ChildrenOfEach(w, Tail(datasets), maxDepth, order)

\* The snapshots of the first dataset alone, the rest of the list skipped.
SnapshotsOfFirst(w, datasets, sorder) ==
    IF datasets = <<>> \/ IsSnapId(Head(datasets)) THEN <<>>
    ELSE GetSnapshots(w, Head(datasets).fs, sorder)

\* datasets += d.get_snapshots() for every filesystem d of datasets
RECURSIVE SnapshotsOfEach(_, _, _)
SnapshotsOfEach(w, datasets, sorder) ==
    IF datasets = <<>> THEN <<>>
    ELSE LET d == Head(datasets)
             mine == IF IsSnapId(d) THEN <<>> ELSE GetSnapshots(w, d.fs, sorder)
         IN  mine \o SnapshotsOfEach(w, Tail(datasets), sorder)

\* get_all_datasets(identifiers, types, recursive, max_depth): the error
\* raised, or the list returned
GetAllDatasets(w, identifiers, types, recursive, maxDepth, order, sorder) ==
    LET fsWanted == types \cap {"all", "filesystem"} # {}
        snapWanted == types \cap {"all", "snapshot", "snap"} # {}
        filesystems == SelectSeq(order, LAMBDA F : FsExists(w, F) /\ PoolOf(F) \in w.pools)
        everything == [i \in 1..Len(filesystems) |-> FsId(filesystems[i])]
        failing == {i \in DOMAIN identifiers :
                       GetDatasetBy(w, identifiers[i], "any", "yes") # "ok"}
        first == CHOOSE i \in failing : \A j \in failing : i <= j
        children == IF recursive \/ maxDepth # 0
                    THEN ChildrenOfEach(w, identifiers, maxDepth, order)
                    ELSE <<>>
        expanded == identifiers \o children
        datasets == IF identifiers = <<>>
                    THEN everything \o SnapshotsOfEach(w, everything, sorder)
                    ELSE expanded \o SnapshotsOfEach(w, expanded, sorder)
    IN  IF ~(types \subseteq {"all", "filesystem", "snapshot", "snap"})
        THEN [err |-> "unrecognized", datasets |-> <<>>]
        ELSE IF failing # {}
        THEN [err |-> GetDatasetBy(w, identifiers[first], "any", "yes"),
              datasets |-> <<>>]
        ELSE [err |-> "ok",
              datasets |-> SelectSeq(datasets,
                               LAMBDA d : IF IsSnapId(d) THEN snapWanted ELSE fsWanted)]

\* The identifiers, type lists and depths a list command is given.
ListArgs ==
    {<<>>} \cup {<<id>> : id \in {FsId(<<"foo">>), FsId(<<"foo", "a">>),
                                  FsId(<<"foo", "b">>), SnapId(<<"foo", "a">>, "s")}}
    \cup {<<FsId(<<"foo">>), FsId(<<"foo", "a">>)>>,
          <<FsId(<<"foo", "a">>), FsId(<<"foo", "a">>)>>,
          <<SnapId(<<"foo", "a">>, "s"), FsId(<<"foo", "a">>)>>}
TypeLists == {{"all"}, {"filesystem"}, {"snap"}, {"filesystem", "snapshot"},
              {"filesystems"}}

\* zzzfs list [-r | -d depth] -t types [identifier ...]
ListCmd ==
    /\ nops < MaxOps
    /\ \E identifiers \in ListArgs, types \in TypeLists, recursive \in BOOLEAN,
          d \in 0..MaxDepth, order \in Listings(DOMAIN fsys),
          sorder \in Listings(SnapNames) :
           last' = [op |-> "list", identifiers |-> identifiers, types |-> types,
                    recursive |-> recursive, depth |-> d,
                    got |-> GetAllDatasets(World, identifiers, types, recursive,
                                           d, order, sorder)]
    /\ nops' = MaxOps
    /\ UNCHANGED <<pools, fsys, ddirs, dfiles, mark, lister, history, procs>>

\* Listings between the commands that make and remove datasets.
NextListing ==
    \/ ListCmd
    \/ Create
    \/ Snapshot
    \/ Destroy

SpecListing == Init /\ [][NextListing]_vars

----------------------------------------------------------------------------
(* zzzfs_main: a command from the command line, and the pools' histories *)

\* The record written for a command: its argument vector.
Argv(cmd) == [op |-> cmd.op, a |-> cmd.a, b |-> cmd.b, kvs |-> cmd.kvs]

\* A log that writes one record for each dataset the command returned.
RECURSIVE LogPerDataset(_, _, _, _)
LogPerDataset(h, command, retval, argv) ==
    IF command \in {"diff", "get", "list", "send"} \/ retval = <<>> THEN h
    ELSE LogPerDataset([h EXCEPT ![PoolOf(Head(retval).fs)] = Append(@, argv)],
                       command, Tail(retval), argv)

\* The end of zzzfs_main: nothing for the commands that return text or only
\* read; otherwise Pool.log_history_event on the pool of the dataset
\* returned, or once on each pool of the set of the returned datasets' pools.
LogHistory(h, command, retval, argv) ==
    IF command \in {"diff", "get", "list", "send"} THEN h
    ELSE LET affected == {PoolOf(retval[i].fs) : i \in DOMAIN retval}
         IN  [P \in DOMAIN h |-> IF P \in affected THEN Append(h[P], argv) ELSE h[P]]

\* zfs.set and zfs.inherit on a list of identifiers: every identifier is
\* looked up before the first dataset is touched.
RECURSIVE CheckEach(_, _)
CheckEach(w, ids) ==
    IF w.err # "ok" \/ ids = <<>> THEN w
    ELSE CheckEach(Check(w, GetDatasetBy(w, Head(ids), "any", "yes")), Tail(ids))
RECURSIVE AddToEach(_, _, _, _)
AddToEach(w, ids, key, val) ==
    IF w.err # "ok" \/ ids = <<>> THEN w
    ELSE AddToEach(AddLocalProperty(w, ObjOf(Head(ids)), key, val),
                   Tail(ids), key, val)
ZfsSetEach(w, key, val, ids) == AddToEach(CheckEach(w, ids), ids, key, val)

\* A command that raises leaves zzzfs_main before the log is written.
MainCommit(w, cmd, retval) ==
    /\ CommitStorage(w, cmd)
    /\ history' = IF w.err = "ok"
                  THEN LogHistory(history, cmd.op, retval, Argv(cmd))
                  ELSE history

\* The arguments of the commands: datasets of the pools foo and bar.
HistFs == {FsId(<<"foo">>), FsId(<<"bar">>), FsId(<<"foo", "a">>), FsId(<<"bar", "a">>)}
HistSnaps == {SnapId(<<"foo">>, "s"), SnapId(<<"bar">>, "s"), SnapId(<<"bar">>, "t")}
HistBatches ==
    {<<id>> : id \in HistSnaps}
    \cup {<<SnapId(<<"bar">>, "s"), SnapId(<<"bar">>, "t")>>,
          <<SnapId(<<"bar">>, "s"), SnapId(<<"foo">>, "s")>>,
          <<SnapId(<<"foo">>, "s"), SnapId(<<"bar">>, "s"), SnapId(<<"bar">>, "t")>>}
HistLists ==
    {<<id>> : id \in {FsId(<<"foo">>), FsId(<<"bar">>), SnapId(<<"bar">>, "s")}}
    \cup {<<FsId(<<"foo">>), FsId(<<"bar">>)>>,
          <<FsId(<<"bar">>), SnapId(<<"bar">>, "s")>>,
          <<FsId(<<"foo">>), FsId(<<"bar">>), FsId(<<"bar", "a">>)>>}

MainCreate ==
    /\ nops < MaxOps
    /\ \E id \in HistFs :
           MainCommit(ZfsCreate(World, id.fs, FALSE, <<>>),
                      Cmd("create", id, NoId, FALSE, <<>>), <<id>>)
MainDestroy ==
    /\ nops < MaxOps
    /\ \E id \in HistFs, r \in BOOLEAN :
           \E o \in ListingsBelow(id.fs) :
               MainCommit(ZfsDestroy(World, id, r, o),
                          Cmd("destroy", id, NoId, r, o), <<id>>)
MainSnapshot ==
    /\ nops < MaxOps
    /\ \E ids \in HistBatches :
           MainCommit(ZfsSnapshot(World, ids, <<>>),
                      Cmd("snapshot", ids[1], ids, FALSE, <<>>), ids)
MainSet ==
    /\ nops < MaxOps
    /\ \E ids \in HistLists, k \in Keys, v \in Vals :
           MainCommit(ZfsSetEach(World, k, v, ids),
                      Cmd("set", ids[1], ids, FALSE, <<(<<k, v>>)>>), ids)
MainClone ==
    /\ nops < MaxOps
    /\ \E id \in HistSnaps, other \in HistFs :
           MainCommit(ZfsClone(World, id, other),
                      Cmd("clone", id, other, FALSE, <<>>), <<id, other>>)
MainRollback ==
    /\ nops < MaxOps
    /\ \E id \in HistSnaps :
           MainCommit(ZfsRollback(World, id),
                      Cmd("rollback", id, NoId, FALSE, <<>>), <<id>>)
\* diff, send, list and get: the storage is read, and text or the dataset
\* read is returned.
MainRead ==
    /\ nops < MaxOps
    /\ \/ \E id \in HistSnaps, other \in HistSnaps \cup HistFs :
              MainCommit(ZfsDiff(World, id, other),
                         Cmd("diff", id, other, FALSE, <<>>), <<>>)
       \/ \E id \in HistSnaps :
              MainCommit(ZfsSend(World, id),
                         Cmd("send", id, NoId, FALSE, <<>>), <<id>>)
       \/ \E ids \in HistLists, op \in {"list", "get"},
             order \in Listings(DOMAIN fsys), sorder \in Listings(SnapNames) :
              LET got == GetAllDatasets(World, ids, {"all"}, FALSE, 0, order, sorder)
              IN  MainCommit(IF got.err = "ok" THEN World ELSE Fail(World, got.err),
                             Cmd(op, ids[1], ids, FALSE, <<>>), <<>>)

\* The pools foo and bar as `zzzpool create` leaves them, each with the
\* record of its creation.
HistWorld == PoolCreate(InitWorld, "bar")
InitHistory ==
    /\ pools = HistWorld.pools
    /\ fsys = HistWorld.fsys
    /\ ddirs = HistWorld.ddirs
    /\ dfiles = HistWorld.dfiles
    /\ last = [op |-> "init", a |-> NoId, b |-> NoId, flag |-> FALSE,
               kvs |-> <<>>, err |-> "ok", pre |-> NotFound, follows |-> FALSE]
    /\ nops = 0
    /\ mark = NoMark
    /\ lister = Idle
    /\ procs = NoProcs
    /\ history = [P \in {"foo", "bar"} |->
                    <<[op |-> "zpool_create", a |-> FsId(<<P>>), b |-> NoId,
                       kvs |-> <<>>]>>]

NextHistory ==
    \/ MainCreate
    \/ MainDestroy
    \/ MainSnapshot
    \/ MainSet
    \/ MainClone
    \/ MainRollback
    \/ MainRead

SpecHistory == InitHistory /\ [][NextHistory]_vars

----------------------------------------------------------------------------
(* zfs.destroy step by step *)

\* Process "d" runs one destroy command.  Its stack holds the calls of
\* Filesystem.destroy that are under way or still to be made, the current
\* one first: the filesystem, how far the call is, and its dependencies.
Frame(F) == [fs |-> F, stage |-> "call", deps |-> <<>>]
DestroyerIdle == [d |-> [pc |-> "idle", stack |-> <<>>, recursive |-> FALSE,
                         err |-> "ok"]]
StoreAfter(w) ==
    /\ pools' = w.pools
    /\ fsys' = w.fsys
    /\ ddirs' = w.ddirs
    /\ dfiles' = w.dfiles

\* zfs.destroy: get_dataset_by(filesystem, should_be=Filesystem), then the
\* call of dataset.destroy(recursive)
DestroyCall ==
    /\ procs.d.pc = "idle"
    /\ \E id \in AllIds, r \in BOOLEAN :
          LET e == GetDatasetBy(World, id, "fs", "yes")
          IN  procs' = [procs EXCEPT !.d =
                          IF e # "ok"
                          THEN [@ EXCEPT !.pc = "failed", !.err = e]
                          ELSE [pc |-> "destroying", stack |-> <<Frame(id.fs)>>,
                                recursive |-> r, err |-> "ok"]]
    /\ UNCHANGED <<pools, fsys, ddirs, dfiles, last, nops, mark, lister, history>>

\* The dependencies are collected from the listing; without -r the call
\* raises when there are any.
DestroyCollect ==
    /\ procs.d.pc = "destroying"
    /\ Head(procs.d.stack).stage = "call"
    /\ LET F == Head(procs.d.stack).fs
       IN  \E o \in ListingsBelow(F) :
              LET dependencies == Dependencies(World, F, o)
              IN  procs' = [procs EXCEPT !.d =
                      IF Len(dependencies) > 0 /\ ~procs.d.recursive
                      THEN [@ EXCEPT !.pc = "failed", !.err = "has_children"]
                      ELSE [@ EXCEPT !.stack[1] =
                              [fs |-> F, stage |-> "mount", deps |-> dependencies]]]
    /\ UNCHANGED <<pools, fsys, ddirs, dfiles, last, nops, mark, lister, history>>

\* shutil.rmtree(self.mountpoint), when the mountpoint exists
DestroyMountpoint ==
    /\ procs.d.pc = "destroying"
    /\ Head(procs.d.stack).stage = "mount"
    /\ LET F == Head(procs.d.stack).fs
       IN  StoreAfter(IF MountExists(World, F) THEN RmTree(World, F) ELSE World)
    /\ procs' = [procs EXCEPT !.d.stack[1].stage = "root"]
    /\ UNCHANGED <<last, nops, mark, lister, history>>

\* shutil.rmtree(self.root); the calls of destroy on the dependencies come
\* next, in their order
DestroyRoot ==
    /\ procs.d.pc = "destroying"
    /\ Head(procs.d.stack).stage = "root"
    /\ LET top == Head(procs.d.stack)
           w == RmRoot(World, top.fs)
           stack == [i \in 1..Len(top.deps) |-> Frame(top.deps[i])]
                       \o Tail(procs.d.stack)
       IN  /\ StoreAfter(w)
           /\ procs' = [procs EXCEPT !.d =
                  IF w.err # "ok" THEN [@ EXCEPT !.pc = "failed", !.err = w.err]
                  ELSE IF stack = <<>> THEN [@ EXCEPT !.pc = "done", !.stack = stack]
                  ELSE [@ EXCEPT !.stack = stack]]
    /\ UNCHANGED <<last, nops, mark, lister, history>>

\* A destroy command step by step, on the datasets that creates, snapshots
\* and file changes have made.
InitDestroySteps ==
    /\ \E w \in {InitWorld, TreeWorld, SnapWorld} :
          /\ pools = w.pools
          /\ fsys = w.fsys
          /\ ddirs = w.ddirs
          /\ dfiles = w.dfiles
    /\ last = [op |-> "init", a |-> NoId, b |-> NoId, flag |-> FALSE,
               kvs |-> <<>>, err |-> "ok", pre |-> NotFound, follows |-> FALSE]
    /\ nops = 0
    /\ mark = NoMark
    /\ lister = Idle
    /\ history = NoHistory
    /\ procs = DestroyerIdle

NextDestroySteps ==
    \/ DestroyCall
    \/ DestroyCollect
    \/ DestroyMountpoint
    \/ DestroyRoot
    \/ procs.d.pc = "idle" /\ Create
    \/ procs.d.pc = "idle" /\ AddFile

SpecDestroySteps == InitDestroySteps /\ [][NextDestroySteps]_vars

\* The process that runs the destroy executes its statements one after the
\* other without waiting for anything, so a step that can be taken is taken.
SpecDestroyFair ==
    SpecDestroySteps
    /\ WF_vars(DestroyCollect \/ DestroyMountpoint \/ DestroyRoot)

----------------------------------------------------------------------------
(* Two processes run the same create or snapshot command *)

Racers == {"p", "q"}
\* The stages of Filesystem.create after the parent check, and of
\* Snapshot.create, in order.
NextStage(stage) ==
    CASE stage = "root" -> "data"
      [] stage = "data" -> "link"
      [] stage = "link" -> "props"
      [] stage = "props" -> "snaps"
      [] stage = "snaps" -> "return"
      [] stage = "snaproot" -> "snapdata"
      [] stage = "snapdata" -> "snapprops"
      [] stage = "snapprops" -> "return"

\* A create whose every step is wrapped in `except OSError: pass`.
CreateStepIgnoring(w, F, stage) ==
    LET r == CASE stage = "root" -> [MakeDataDir(w, F) EXCEPT !.ddirs = w.ddirs]
               [] stage = "data" -> MakeDataDir(w, F)
               [] stage = "link" -> MakeDataLink(w, F)
               [] stage = "props" -> MakePropsDir(w, F)
               [] stage = "snaps" -> MakeSnapsDir(w, F)
    IN  IF r.err # "ok" THEN w ELSE r

\* One system call of Filesystem.create: os.makedirs of the data directory
\* first makes the filesystem's own directory and then the data directory
\* (OSError ignored), then come os.symlink and the two os.makedirs.
CreateStep(w, F, stage) ==
    CASE stage = "root" -> [MakeDataDir(w, F) EXCEPT !.ddirs = w.ddirs]
      [] stage = "data" -> MakeDataDir(w, F)
      [] stage = "link" -> MakeDataLink(w, F)
      [] stage = "props" -> MakePropsDir(w, F)
      [] stage = "snaps" -> MakeSnapsDir(w, F)

\* One call of Snapshot.create: os.makedirs(self.root), the copy of the
\* data, the copy of the properties.
SnapshotStep(w, F, S, stage) ==
    CASE stage = "snaproot" -> MakeSnapRoot(w, F, S)
      [] stage = "snapdata" -> CopyDataToSnap(w, F, S)
      [] stage = "snapprops" -> CopyPropsToSnap(w, F, S)

Failed(proc, e) == [proc EXCEPT !.pc = "failed", !.err = e]

\* zfs.create / zfs.snapshot: get_dataset_by(..., should_exist=False), and
\* for a snapshot the test that its filesystem exists
RaceCheck(x) ==
    /\ procs[x].pc = "check"
    /\ LET id == procs[x].id
           e == GetDatasetBy(World, id, IF IsSnapId(id) THEN "snap" ELSE "fs", "no")
       IN  procs' = [procs EXCEPT ![x] =
              IF e # "ok" THEN Failed(@, e)
              ELSE IF ~IsSnapId(id) THEN [@ EXCEPT !.pc = "parent"]
              ELSE IF ~FsExists(World, id.fs) THEN Failed(@, "no_such_filesystem")
              ELSE [@ EXCEPT !.pc = "snaproot"]]
    /\ UNCHANGED <<pools, fsys, ddirs, dfiles, last, nops, mark, lister, history>>

\* Filesystem.create: `if not self.get_parent().exists()`, with the call of
\* create on the parent when create_parents is set
RaceParent(x) ==
    /\ procs[x].pc = "parent"
    /\ LET F == Head(procs[x].stack)
       IN  procs' = [procs EXCEPT ![x] =
              IF ParentExists(World, F) THEN [@ EXCEPT !.pc = "root"]
              ELSE IF procs[x].parents /\ Len(F) > 1
                   THEN [@ EXCEPT !.stack = <<Front(F)>> \o @]
              ELSE IF procs[x].parents THEN Failed(@, "type_error")
              ELSE Failed(@, "parent_missing")]
    /\ UNCHANGED <<pools, fsys, ddirs, dfiles, last, nops, mark, lister, history>>

\* The next system call of Filesystem.create; after the last one the call
\* returns, to the create of the child that made it or to zfs.create.
RaceCreateStep(x) ==
    /\ procs[x].pc \in {"root", "data", "link", "props", "snaps"}
    /\ LET w == CreateStep(World, Head(procs[x].stack), procs[x].pc)
           next == NextStage(procs[x].pc)
       IN  /\ StoreAfter(w)
           /\ procs' = [procs EXCEPT ![x] =
                 IF w.err # "ok" THEN Failed(@, w.err)
                 ELSE IF next # "return" THEN [@ EXCEPT !.pc = next]
                 ELSE IF Len(@.stack) > 1
                      THEN [@ EXCEPT !.pc = "root", !.stack = Tail(@)]
                 ELSE [@ EXCEPT !.pc = "done", !.stack = <<>>]]
    /\ UNCHANGED <<last, nops, mark, lister, history>>

\* The next call of Snapshot.create
RaceSnapshotStep(x) ==
    /\ procs[x].pc \in {"snaproot", "snapdata", "snapprops"}
    /\ LET id == procs[x].id
           w == SnapshotStep(World, id.fs, id.snap, procs[x].pc)
           next == NextStage(procs[x].pc)
       IN  /\ StoreAfter(w)
           /\ procs' = [procs EXCEPT ![x] =
                 IF w.err # "ok" THEN Failed(@, w.err)
                 ELSE IF next # "return" THEN [@ EXCEPT !.pc = next]
                 ELSE [@ EXCEPT !.pc = "done"]]
    /\ UNCHANGED <<last, nops, mark, lister, history>>

\* Both processes are started with the same command, on a dataset that
\* does not exist.
InitRace ==
    /\ \E w \in {InitWorld, TreeWorld, SnapWorld} :
          /\ pools = w.pools
          /\ fsys = w.fsys
          /\ ddirs = w.ddirs
          /\ dfiles = w.dfiles
    /\ last = [op |-> "init", a |-> NoId, b |-> NoId, flag |-> FALSE,
               kvs |-> <<>>, err |-> "ok", pre |-> NotFound, follows |-> FALSE]
    /\ nops = 0
    /\ mark = NoMark
    /\ lister = Idle
    /\ history = NoHistory
    /\ \E id \in AllIds, createParents \in BOOLEAN :
          /\ ~DsExists(World, id)
          /\ IsSnapId(id) => ~createParents
          /\ procs = [x \in Racers |->
                        [pc |-> "check", id |-> id, parents |-> createParents,
                         stack |-> IF IsSnapId(id) THEN <<>> ELSE <<id.fs>>,
                         err |-> "ok"]]

NextRace ==
    \E x \in Racers :
        \/ RaceCheck(x)
        \/ RaceParent(x)
        \/ RaceCreateStep(x)
        \/ RaceSnapshotStep(x)

SpecRace == InitRace /\ [][NextRace]_vars

\* The commands that make, move and remove filesystems, with the snapshots
\* that clones are made of.
NextTree ==
    \/ Create
    \/ Destroy
    \/ Rename
    \/ Clone
    \/ Receive
    \/ Snapshot

SpecTree == Init /\ [][NextTree]_vars

\* Destroys between the commands that give a filesystem its content.
NextDestroy ==
    \/ Destroy
    \/ Create
    \/ Snapshot
    \/ Set
    \/ AddFile

SpecDestroy == InitRollback /\ [][NextDestroy]_vars

\* Pool commands between the filesystem commands that change datasets.
NextPool ==
    \/ ZpoolCreateCmd
    \/ ZpoolDestroyCmd
    \/ Create
    \/ Destroy
    \/ Rename
    \/ Clone
    \/ Receive
    \/ Snapshot
    \/ Rollback
    \/ Set
    \/ AddFile

SpecPool == Init /\ [][NextPool]_vars

----------------------------------------------------------------------------
(* What the commands promise: notation *)

\* The storage a step ends in, and the storage as one value.
WorldAfter == [pools |-> pools', fsys |-> fsys', ddirs |-> ddirs',
               dfiles |-> dfiles', err |-> "ok"]
Storage == <<pools, fsys, ddirs, dfiles>>

\* resolve(dataset, key) as `get` reports it.
Resolve(w, id, key) == GetPropertyAndSource(w, ObjOf(id), key)
\* The key files of filesystem F, and the files below its mountpoint.
LocalOf(w, F) == w.fsys[F].props.kv
FilesOf(w, F) == IF MountExists(w, F) THEN TreeAt(w, F).files ELSE {}
\* G lies below F: its name starts with F + '/'.
Below(F, G) == Len(G) > Len(F) /\ IsPrefix(F, G)
\* Key K is local on none of the names from below F down to C.
NotLocalBetween(w, F, C, K) ==
    \A G \in Prefixes(C) :
        Below(F, G) /\ FsExists(w, G) => K \notin DOMAIN LocalOf(w, G)

----------------------------------------------------------------------------
(* Properties and inheritance *)

\* A key that is local on F resolves on F to its value with source local,
\* and on every filesystem below F that has no nearer local value to the
\* same value with source inherited.
Shadowing(w) ==
    \A F \in DOMAIN w.fsys : \A K \in DOMAIN LocalOf(w, F) :
        /\ Resolve(w, FsId(F), K) = [val |-> LocalOf(w, F)[K], source |-> "local"]
        /\ \A C \in DOMAIN w.fsys :
              Below(F, C) /\ NotLocalBetween(w, F, C, K)
                  => Resolve(w, FsId(C), K)
                        = [val |-> LocalOf(w, F)[K], source |-> "inherited"]

\* set(C, K, W) makes K local on C with value W and touches no other
\* filesystem.
SetStep ==
    (last'.op = "set" /\ last'.err = "ok" /\ ~IsSnapId(last'.a)) =>
        LET C == last'.a.fs
            kv == last'.kvs[1]
        IN  /\ Resolve(WorldAfter, FsId(C), kv[1])
                  = [val |-> kv[2], source |-> "local"]
            /\ \A F \in DOMAIN fsys :
                  F # C => F \in DOMAIN fsys' /\ fsys'[F] = fsys[F]

\* The commands that leave the local properties of every filesystem but
\* their own target alone.
KeepsLocal ==
    \A F \in DOMAIN fsys :
        (\/ last'.op \in {"create", "snapshot", "clone", "send", "receive",
                          "diff", "addfile", "rmfile"}
         \/ last'.op \in {"set", "inherit"} /\ last'.a # FsId(F))
            => F \in DOMAIN fsys' /\ fsys'[F].props = fsys[F].props

\* C1: once set(F, K, V) is done resolve(F, K) is (V, local); every
\* filesystem C below F, at any depth, with K local neither on C nor between
\* F and C, resolves K to (V, inherited); set(C, K, W) makes resolve(C, K)
\* (W, local) and leaves F's value alone, and so do the commands that do not
\* write the properties of C or F.
C1_SetAndInherit ==
    [][Shadowing(WorldAfter) /\ SetStep /\ KeepsLocal]_vars

\* A child that inherited V from a filesystem above it has set its own value.
C1_Witness ==
    /\ last.op = "set" /\ last.err = "ok" /\ ~IsSnapId(last.a)
    /\ last.pre.source = "inherited"
    /\ Resolve(World, last.a, "x").source = "local"
    /\ Resolve(World, last.a, "x").val # last.pre.val
    /\ \E F \in DOMAIN fsys :
          /\ Below(F, last.a.fs)
          /\ "x" \in DOMAIN LocalOf(World, F)
          /\ LocalOf(World, F)["x"] = last.pre.val

\* C2: inherit(K, C) right after set(C, K, W) gives resolve(C, K) the value
\* and source it had before the set, when K was not local on C then; on a
\* dataset where K is not local, inherit raises no error and changes nothing.
C2_InheritRestores ==
    [][/\ (last'.op = "inherit" /\ last'.follows /\ last.pre.source # "local")
          => /\ last'.err = "ok"
             /\ Resolve(WorldAfter, last'.a, last'.kvs[1][1]) = last.pre
       /\ (/\ last'.op = "inherit" /\ DsExists(World, last'.a)
           /\ last'.pre.source # "local")
          => last'.err = "ok" /\ Storage' = Storage]_vars

\* An inherit has removed a local value and the key is inherited again.
C2_Witness ==
    /\ last.op = "inherit" /\ last.err = "ok" /\ last.follows
    /\ last.pre.source = "local"
    /\ Resolve(World, last.a, last.kvs[1][1]).source = "inherited"

----------------------------------------------------------------------------
(* Destroy *)

HasDescendant(w, F) == \E G \in DOMAIN w.fsys : Below(F, G)

\* C3: a destroy without -r of a filesystem that has a descendant fails with
\* the has-children error and leaves the storage exactly as it was.
C3_DestroyRefused ==
    [][(/\ last'.op = "destroy" /\ ~last'.flag /\ ~IsSnapId(last'.a)
        /\ FsExists(World, last'.a.fs)
        /\ HasDescendant(World, last'.a.fs))
       => last'.err = "has_children" /\ Storage' = Storage]_vars

\* A destroy without -r was refused because of a descendant.
C3_Witness ==
    /\ last.op = "destroy" /\ ~last.flag /\ last.err = "has_children"
    /\ HasDescendant(World, last.a.fs)

\* C4 as claimed: a destroy with -r of an existing filesystem F ends without
\* error, F and everything below it is gone, and the filesystems outside F
\* are still there, in whatever order the listing returns the filesystems.
C4_RecursiveDestroyClaim ==
    [][(/\ last'.op = "destroy" /\ last'.flag /\ ~IsSnapId(last'.a)
        /\ FsExists(World, last'.a.fs))
       => /\ last'.err = "ok"
          /\ \A G \in DOMAIN fsys' : ~IsPrefix(last'.a.fs, G)
          /\ \A G \in DOMAIN fsys :
                ~IsPrefix(last'.a.fs, G) => G \in DOMAIN fsys']_vars

----------------------------------------------------------------------------
(* Rename *)

\* C5 as claimed: rename(F, F2) of an existing filesystem F, with or without
\* snapshots and child filesystems, to a name F2 of the same pool that does
\* not exist ends with F gone and F2 holding the local properties, the
\* snapshots and the files of F.
C5_RenameClaim ==
    [][(/\ last'.op = "rename" /\ ~IsSnapId(last'.a) /\ last'.b \in FsIds
        /\ FsExists(World, last'.a.fs) /\ ~FsExists(World, last'.b.fs)
        /\ PoolOf(last'.a.fs) = PoolOf(last'.b.fs))
       => /\ last'.b.fs \in DOMAIN fsys'
          /\ last'.a.fs \notin DOMAIN fsys'
          /\ LocalOf(WorldAfter, last'.b.fs) = LocalOf(World, last'.a.fs)
          /\ fsys'[last'.b.fs].snaps = fsys[last'.a.fs].snaps
          /\ FilesOf(WorldAfter, last'.b.fs) = FilesOf(World, last'.a.fs)]_vars

----------------------------------------------------------------------------
(* Snapshots and rollback *)

\* Local properties with the properties given to a command written on top.
WithSupplied(props, kvs) ==
    LET given == {kvs[i][1] : i \in DOMAIN kvs}
        lastOf(k) == CHOOSE i \in DOMAIN kvs :
                        /\ kvs[i][1] = k
                        /\ \A j \in DOMAIN kvs : kvs[j][1] = k => j <= i
    IN  [k \in (DOMAIN props) \cup given |->
            IF k \in given THEN kvs[lastOf(k)][2] ELSE props[k]]

\* A rollback to the snapshot `mark` remembers, after nothing but file
\* changes in its filesystem and set/inherit on it.
RollbackOfMarked == last'.op = "rollback" /\ mark # NoMark /\ last'.a = mark.id

SnapshotKept(F, S) ==
    LET snap == fsys[F].snaps.m[S]
        same(G, T) == SnapExists(WorldAfter, G, T) /\ fsys'[G].snaps.m[T] = snap
        sameData(G, T) ==
            SnapExists(WorldAfter, G, T) /\ fsys'[G].snaps.m[T].data = snap.data
    IN  IF last'.op = "destroy"
        THEN F \notin DOMAIN fsys' \/ same(F, S)
        ELSE IF last'.op = "rename" /\ last'.a = FsId(F)
        THEN (IF last'.err = "ok"
              THEN same(last'.b.fs, S) ELSE same(last'.b.fs, S) \/ same(F, S))
        ELSE IF last'.op = "rename" /\ last'.a = SnapId(F, S)
        THEN (IF last'.err = "ok"
              THEN /\ same(F, SiblingTarget(last'.a, last'.b).snap)
                   /\ ~SnapExists(WorldAfter, F, S)
              ELSE same(F, S))
        ELSE IF last'.op \in {"set", "inherit"} /\ last'.a = SnapId(F, S)
        THEN sameData(F, S)
        ELSE same(F, S)

\* C7: the data copy of a snapshot is changed by no step for as long as its
\* filesystem is not destroyed; a rename of the filesystem takes the
\* snapshot along unchanged, a rename of the snapshot changes its name only,
\* and diff, clone and send leave its data and properties as they are.
C7_SnapshotFrozen ==
    [][\A F \in DOMAIN fsys : \A S \in SnapsOf(World, F) : SnapshotKept(F, S)]_vars

\* A filesystem that was changed after its snapshot: the snapshot still
\* holds the other file set, whether it was rolled back to, cloned or sent.
C7_Witness ==
    /\ last.op \in {"rename", "clone", "send", "diff", "rollback", "addfile"}
    /\ last.err = "ok"
    /\ \E F \in DOMAIN fsys : \E S \in SnapsOf(World, F) :
          /\ fsys[F].snaps.m[S].data.present
          /\ (last.op = "addfile"
                => fsys[F].snaps.m[S].data.files # FilesOf(World, F))
          /\ (last.op = "rename" => last.b \in {FsId(F), SnapId(F, S)})
          /\ (last.op \in {"clone", "send", "diff", "rollback"}
                => last.a = SnapId(F, S))

----------------------------------------------------------------------------
(* Receive and clone *)

\* The receive got as far as the try block of Filesystem.create and failed.
ReceiveFailedInTry ==
    /\ last'.op = "receive" /\ last'.err # "ok"
    /\ FsCreate(Check(World, GetDatasetBy(World, last'.a, "fs", "no")),
                last'.a.fs, FALSE).err = "ok"

\* C8 as claimed: a receive that fails while unpacking or rolling back raises
\* a domain error, the filesystem it was to create does not exist afterwards,
\* and every dataset that existed before is unchanged.
C8_ReceiveCleanupClaim ==
    [][ReceiveFailedInTry
       => /\ last'.err \in {"stream_error", "has_children"}
          /\ last'.a.fs \notin DOMAIN fsys'
          /\ \A G \in DOMAIN fsys :
                /\ G \in DOMAIN fsys' /\ fsys'[G] = fsys[G]
                /\ FilesOf(WorldAfter, G) = FilesOf(World, G)]_vars

\* The existing snapshots whose stream the receive has read.
SentBy(F, S) ==
    /\ SnapExists(World, F, S)
    /\ last'.flag
    /\ last'.kvs = ToStream(fsys[F].snaps.m[S], S).members

\* C9 as claimed: receive(G, send(F@S)) for an existing snapshot and a G that
\* does not exist and whose parent exists creates G with the files and the
\* local properties of the snapshot and with the one snapshot S, equal to
\* F@S, and leaves F@S as it is.
C9_SendReceiveClaim ==
    [][\A F \in DOMAIN fsys : \A S \in SnapNames :
          (/\ last'.op = "receive" /\ SentBy(F, S)
           /\ ~FsExists(World, last'.a.fs) /\ ParentExists(World, last'.a.fs))
          => LET G == last'.a.fs
                 snap == fsys[F].snaps.m[S]
             IN  /\ G \in DOMAIN fsys'
                 /\ FilesOf(WorldAfter, G) = snap.data.files
                 /\ LocalOf(WorldAfter, G) = snap.props.kv
                 /\ SnapsOf(WorldAfter, G) = {S}
                 /\ fsys'[G].snaps.m[S] = snap
                 /\ SnapExists(WorldAfter, F, S)
                 /\ fsys'[F].snaps.m[S] = snap]_vars

\* C10 as claimed: clone(F@S, G) of an existing snapshot creates G, when G
\* does not exist and its parent does, with the files and the local
\* properties of the snapshot plus origin = F@S; when G exists or its parent
\* is missing the call fails and changes nothing.
C10_CloneClaim ==
    [][(last'.op = "clone" /\ DsExists(World, last'.a) /\ IsSnapId(last'.a))
       => LET F == last'.a.fs
              S == last'.a.snap
              G == last'.b.fs
              snap == fsys[F].snaps.m[S]
          IN  IF ~FsExists(World, G) /\ ParentExists(World, G)
              THEN /\ G \in DOMAIN fsys'
                   /\ FilesOf(WorldAfter, G) = snap.data.files
                   /\ LocalOf(WorldAfter, G)
                        = Put(snap.props.kv, "origin", Join(F) \o "@" \o S)
              ELSE last'.err # "ok" /\ Storage' = Storage]_vars

----------------------------------------------------------------------------
(* Promote *)

\* C11: promote(G) on an existing filesystem raises no error and removes the
\* key file origin of G when there is one: the other key files of G, its
\* files and snapshots and every other dataset are as before, and origin is
\* not local on G afterwards; without a local origin nothing changes.
C11_PromoteRemovesOrigin ==
    [][(last'.op = "promote" /\ FsExists(World, last'.a.fs))
       => LET G == last'.a.fs
          IN  /\ last'.err = "ok"
              /\ G \in DOMAIN fsys'
              /\ "origin" \notin DOMAIN LocalOf(WorldAfter, G)
              /\ Resolve(WorldAfter, FsId(G), "origin").source # "local"
              /\ fsys' = [fsys EXCEPT ![G].props.kv = Del(@, "origin")]
              /\ <<pools', ddirs', dfiles'>> = <<pools, ddirs, dfiles>>
              /\ ("origin" \notin DOMAIN LocalOf(World, G)
                    => Storage' = Storage)]_vars

\* A clone that holds a property of its snapshot has been promoted: origin
\* is gone and the other property is still there.
C11_Witness ==
    /\ last.op = "promote" /\ last.err = "ok"
    /\ last.pre.source = "local"
    /\ LocalOf(World, last.a.fs) # EmptyMap
    /\ "origin" \notin DOMAIN LocalOf(World, last.a.fs)

----------------------------------------------------------------------------
(* Snapshot batches *)

\* Entry i of a batch cannot be created: it repeats an earlier entry, names a
\* snapshot that exists, or names a filesystem that does not exist.
EntryFails(ids, i) ==
    \/ \E j \in 1..(i - 1) : ids[j] = ids[i]
    \/ SnapExists(World, ids[i].fs, ids[i].snap)
    \/ ~FsExists(World, ids[i].fs)
\* Entry i is the first such entry, and the filesystems of the entries
\* before it have their data directory.
FirstFailure(ids, i) ==
    /\ EntryFails(ids, i)
    /\ \A j \in 1..(i - 1) :
          ~EntryFails(ids, j) /\ MountExists(World, ids[j].fs)
\* The snapshot a command given properties kvs takes of filesystem F.
SnapshotTaken(F, kvs) ==
    [data |-> TreeAt(World, F),
     props |-> [present |-> TRUE, kv |-> WithSupplied(LocalOf(World, F), kvs)]]
\* The filesystem directories with the snapshots of ids[1..n] added.
WithSnapshots(ids, n, kvs) ==
    [F \in DOMAIN fsys |->
        LET new == {ids[j].snap : j \in {x \in 1..n : ids[x].fs = F}}
        IN  IF new = {} THEN fsys[F]
            ELSE [fsys[F] EXCEPT !.snaps =
                    [present |-> TRUE,
                     m |-> [S \in (DOMAIN @.m) \cup new |->
                              IF S \in new THEN SnapshotTaken(F, kvs)
                              ELSE @.m[S]]]]]

\* C12: a batch is handled entry by entry: when entry i is the first that
\* repeats an earlier entry, names an existing snapshot or names a missing
\* filesystem, the command raises an error, the snapshots of the entries
\* before i are there with their data and properties, and nothing else has
\* changed: entry i and the entries after it have created nothing.
C12_BatchStopsAtFailure ==
    [][\A i \in 1..MaxBatch :
          (/\ last'.op = "snapshot" /\ i \in DOMAIN last'.b
           /\ FirstFailure(last'.b, i))
          => /\ last'.err # "ok"
             /\ fsys' = WithSnapshots(last'.b, i - 1, last'.kvs)
             /\ <<pools', ddirs', dfiles'>> = <<pools, ddirs, dfiles>>]_vars

\* The second entry of a batch failed after the first was created.
C12_Witness ==
    /\ last.op = "snapshot" /\ last.err # "ok"
    /\ Len(last.b) > 1
    /\ SnapExists(World, last.b[1].fs, last.b[1].snap)
    /\ fsys[last.b[1].fs].snaps.m[last.b[1].snap].data.present
    /\ last.b[2] # last.b[1] => ~SnapExists(World, last.b[2].fs, last.b[2].snap)

----------------------------------------------------------------------------
(* A single snapshot *)

\* C13: snapshot(F@S, props) on an existing filesystem F without a snapshot
\* S raises no error and creates F@S with F's files as data and F's local
\* properties, overridden by props, as local properties, changing nothing
\* else; when F@S exists the call raises an error and changes nothing.
C13_SnapshotClaim ==
    [][(last'.op = "snapshot" /\ Len(last'.b) = 1 /\ FsExists(World, last'.a.fs))
       => LET F == last'.a.fs
              S == last'.a.snap
          IN  IF SnapExists(World, F, S)
              THEN last'.err # "ok" /\ Storage' = Storage
              ELSE /\ last'.err = "ok"
                   /\ fsys' = WithSnapshots(last'.b, 1, last'.kvs)
                   /\ <<pools', ddirs', dfiles'>> = <<pools, ddirs, dfiles>>]_vars

----------------------------------------------------------------------------
(* Creating filesystems *)

\* A filesystem as create leaves it: data link, properties directory holding
\* the given key files, empty snapshots directory.
FreshFs(kv) == [data |-> TRUE, props |-> [present |-> TRUE, kv |-> kv],
                snaps |-> EmptySnaps]
\* F's metadata is complete: data link, properties and snapshots directories.
Complete(w, F) ==
    /\ FsExists(w, F)
    /\ w.fsys[F].data /\ w.fsys[F].props.present /\ w.fsys[F].snaps.present

\* C14 as stated: create(F) without -p on a missing F whose parent is
\* missing fails with the parent-missing error and changes nothing; create -p
\* on a missing F raises no error and afterwards F and every ancestor of F
\* exists with a data link, a properties directory and an empty snapshots
\* directory, the supplied properties local on F; create on an existing F
\* fails and changes nothing.
C14_CreateAsStated ==
    [][last'.op = "create"
       => LET F == last'.a.fs
          IN  /\ FsExists(World, F)
                 => last'.err = "dataset_exists" /\ Storage' = Storage
              /\ (~FsExists(World, F) /\ ~last'.flag /\ ~ParentExists(World, F))
                 => last'.err = "parent_missing" /\ Storage' = Storage
              /\ (~FsExists(World, F) /\ last'.flag)
                 => /\ last'.err = "ok"
                    /\ \A G \in Prefixes(F) :
                          /\ Complete(WorldAfter, G)
                          /\ SnapsOf(WorldAfter, G) = {}
                    /\ LocalOf(WorldAfter, F) = WithSupplied(EmptyMap, last'.kvs)]_vars

\* The names create -p makes for a missing F: F and its ancestors below the
\* nearest ancestor that exists.
MadeBy(w, F) ==
    {G \in Prefixes(F) :
        \A n \in Len(G)..Len(F) : ~FsExists(w, SubSeq(F, 1, n))}

\* C14: create(F) without -p on a missing F whose parent is missing fails
\* with the parent-missing error and changes nothing; create -p on a missing
\* F raises no error and creates F and the missing ancestors below F's
\* nearest existing ancestor, each with data link, properties directory and
\* empty snapshots directory, the supplied properties local on F and no
\* property on a created ancestor, leaving every filesystem that existed,
\* its snapshots included, and all files as they were; create on an existing
\* F fails and changes nothing.
C14_CreateClaim ==
    [][last'.op = "create"
       => LET F == last'.a.fs
          IN  /\ FsExists(World, F)
                 => last'.err = "dataset_exists" /\ Storage' = Storage
              /\ (~FsExists(World, F) /\ ~last'.flag /\ ~ParentExists(World, F))
                 => last'.err = "parent_missing" /\ Storage' = Storage
              /\ (~FsExists(World, F) /\ last'.flag)
                 => /\ last'.err = "ok"
                    /\ DOMAIN fsys' = (DOMAIN fsys) \cup MadeBy(World, F)
                    /\ \A G \in DOMAIN fsys' :
                          fsys'[G] = IF G \in DOMAIN fsys THEN fsys[G]
                                     ELSE IF G = F
                                          THEN FreshFs(WithSupplied(EmptyMap, last'.kvs))
                                          ELSE FreshFs(EmptyMap)
                    /\ pools' = pools /\ dfiles' = dfiles
                    /\ ddirs \subseteq ddirs']_vars

\* create -p with a property made foo/a/b and its missing parent below a root
\* that has a snapshot.
C14_Witness ==
    /\ last.op = "create" /\ last.err = "ok" /\ last.flag
    /\ last.a.fs = <<"foo", "a", "b">> /\ last.kvs # <<>>
    /\ LocalOf(World, <<"foo", "a", "b">>) = WithSupplied(EmptyMap, last.kvs)
    /\ Complete(World, <<"foo", "a">>)
    /\ LocalOf(World, <<"foo", "a">>) = EmptyMap
    /\ SnapsOf(World, <<"foo">>) # {}

----------------------------------------------------------------------------
(* Pools *)

\* C15: in every reachable state each existing pool P has its root
\* filesystem, the filesystem named P.
C15_PoolHasRoot == \A P \in pools : FsExists(World, <<P>>)

\* The datasets, directories and files of the pools other than P.
OtherPools(w, P) ==
    <<w.pools \ {P},
      [F \in {G \in DOMAIN w.fsys : PoolOf(G) # P} |-> w.fsys[F]],
      {d \in w.ddirs : d[1] # P}, {f \in w.dfiles : f[1] # P}>>

\* C16: zpool create fails and changes nothing when the pool exists or the
\* backing directory is not empty, and otherwise creates the pool with its
\* root filesystem; zpool destroy of an existing pool removes the pool, its
\* filesystems and snapshots and its backing data, leaving the other pools
\* alone; destroy of a pool that does not exist, such as a second destroy,
\* fails with no-such-pool; a create of the same pool on the same directory
\* right after its destroy succeeds.
C16_PoolCreateDestroy ==
    [][LET P == last'.a.fs[1]
           D == last'.b.fs[1]
       IN  /\ last'.op = "zpool_create"
              => IF PoolExists(World, P) \/ DiskInUse(World, D)
                 THEN last'.err \in {"pool_exists", "disk_in_use"}
                      /\ Storage' = Storage
                 ELSE /\ last'.err = "ok"
                      /\ P \in pools'
                      /\ fsys' = [F \in (DOMAIN fsys) \cup {<<P>>} |->
                                    IF F = <<P>> THEN FreshFs(EmptyMap)
                                    ELSE fsys[F]]
                      /\ OtherPools(WorldAfter, P) = OtherPools(World, P)
           /\ last'.op = "zpool_destroy"
              => IF PoolExists(World, P)
                 THEN /\ last'.err = "ok"
                      /\ P \notin pools'
                      /\ \A F \in DOMAIN fsys' : PoolOf(F) # P
                      /\ ~DiskInUse(WorldAfter, P)
                      /\ OtherPools(WorldAfter, P) = OtherPools(World, P)
                 ELSE last'.err = "no_such_pool" /\ Storage' = Storage
           /\ (/\ last.op = "zpool_destroy" /\ last.err = "ok"
               /\ last'.a = last.a)
              => /\ last'.op = "zpool_destroy" => last'.err = "no_such_pool"
                 /\ (last'.op = "zpool_create" /\ D = P) => last'.err = "ok"]_vars

\* Pool foo has been destroyed and then created again on its directory.
C16_Witness ==
    /\ last.op = "zpool_create" /\ last.err = "ok"
    /\ last.a = FsId(<<"foo">>) /\ last.b = last.a
    /\ nops = 2
    /\ DOMAIN fsys = {<<"foo">>}
    /\ fsys[<<"foo">>] = FreshFs(EmptyMap)

----------------------------------------------------------------------------
(* The existence checks of get_dataset_by *)

\* The kind and the existence constraint with which a command resolves its
\* first argument.
ShouldBe(op) ==
    IF op \in {"create", "destroy"} THEN "fs"
    ELSE IF op \in {"snapshot", "rollback", "clone"} THEN "snap"
    ELSE "any"
ShouldExist(op) == IF op \in {"create", "snapshot"} THEN "no" ELSE "yes"
Resolving ==
    {"create", "destroy", "snapshot", "rollback", "clone", "set", "rename"}
KindAccepted(op, id) ==
    \/ ShouldBe(op) = "any"
    \/ ShouldBe(op) = "fs" /\ ~IsSnapId(id)
    \/ ShouldBe(op) = "snap" /\ IsSnapId(id)

\* Resolving without an existence constraint fails with no-such-pool when the
\* pool does not exist and succeeds when it does.
UncheckedNeedsPool ==
    \A id \in AllIds :
       GetDatasetBy(World, id, "any", "none")
         = IF PoolExists(World, PoolOf(id.fs)) THEN "ok" ELSE "no_such_pool"

\* C19 as stated: a command whose argument is of the kind it asks for and
\* lies in a pool that does not exist fails with no-such-pool, whatever the
\* existence constraint; when the pool exists, a must-exist command fails
\* with no-such-dataset exactly when the dataset is absent and a
\* must-not-exist command fails with dataset-exists exactly when it is
\* present.
C19_ResolveAsStated ==
    [][/\ (last'.op \in Resolving /\ KindAccepted(last'.op, last'.a))
          => (LET id == last'.a
             IN  IF ~PoolExists(World, PoolOf(id.fs))
                 THEN last'.err = "no_such_pool"
                 ELSE /\ ShouldExist(last'.op) = "yes"
                         => (last'.err = "no_such_dataset" <=> ~DsExists(World, id))
                      /\ ShouldExist(last'.op) = "no"
                         => (last'.err = "dataset_exists" <=> DsExists(World, id)))
       /\ UncheckedNeedsPool]_vars

\* C19: a command whose argument is of the kind it asks for and lies in a
\* pool that does not exist fails with no-such-dataset when it asks for an
\* existing dataset and with no-such-pool when it asks for a missing one;
\* when the pool exists, a must-exist command fails with no-such-dataset
\* exactly when the dataset is absent and a must-not-exist command fails with
\* dataset-exists exactly when it is present.
C19_ResolveExistence ==
    [][/\ (last'.op \in Resolving /\ KindAccepted(last'.op, last'.a))
          => (LET id == last'.a
             IN  IF ~PoolExists(World, PoolOf(id.fs))
                 THEN last'.err = IF ShouldExist(last'.op) = "yes"
                                  THEN "no_such_dataset" ELSE "no_such_pool"
                 ELSE /\ ShouldExist(last'.op) = "yes"
                         => (last'.err = "no_such_dataset" <=> ~DsExists(World, id))
                      /\ ShouldExist(last'.op) = "no"
                         => (last'.err = "dataset_exists" <=> DsExists(World, id)))
       /\ UncheckedNeedsPool]_vars

\* zfs set on a filesystem of the destroyed pool was answered with
\* no-such-dataset.
C19_Witness ==
    /\ last.op = "set" /\ last.err = "no_such_dataset"
    /\ ~IsSnapId(last.a)
    /\ ~PoolExists(World, PoolOf(last.a.fs))

----------------------------------------------------------------------------
(* Identifiers *)

\* The error kind invalid-identifier.
Invalid(e) == e \in {"invalid_identifier", "invalid_snapshot_name"}
\* Every '/'-separated component of the path is non-empty, starts with an
\* alphanumeric character and holds only alphanumerics and _ - : .
WellFormedPath(path) ==
    /\ path # <<>>
    /\ path[Len(path)] # "/"
    /\ \A i \in DOMAIN path :
          /\ IsAlnum(path[i]) \/ path[i] \in {"_", "-", ":", ".", "/"}
          /\ (i = 1 \/ path[i - 1] = "/") => IsAlnum(path[i])

\* C17: an identifier without '@' is rejected with an invalid-identifier
\* error exactly when some component of its path is empty, does not start
\* with an alphanumeric character or holds a character outside the
\* alphanumerics and _ - : .
C17_ComponentsValidated ==
    (last.op = "resolve" /\ Count(last.name, "@") = 0)
    => (Invalid(last.got.err) <=> ~WellFormedPath(last.name))

\* C18: a resolved identifier without '@' is a Filesystem; a resolved
\* identifier with one '@' is a Snapshot whose two parts are non-empty, valid
\* names, the snapshot part without '/'; an identifier with more than one
\* '@', or with nothing before or after its '@', is rejected with an
\* invalid-identifier error.
C18_AtSignClaim ==
    last.op = "resolve"
    => LET n == Count(last.name, "@")
       IN  /\ (n = 0 /\ last.got.err = "ok") => last.got.kind = "Filesystem"
           /\ (n = 1 /\ last.got.err = "ok")
              => /\ last.got.kind = "Snapshot"
                 /\ last.got.fs = BeforeAt(last.name)
                 /\ last.got.snap = AfterAt(last.name)
                 /\ WellFormedPath(last.got.snap)
                 /\ Count(last.got.snap, "/") = 0
                 /\ last.got.fs # <<>>
           /\ (n > 1 \/ (n = 1 /\ (BeforeAt(last.name) = <<>>
                                   \/ AfterAt(last.name) = <<>>)))
              => Invalid(last.got.err) /\ last.got.kind # "Filesystem"

----------------------------------------------------------------------------
(* Renaming snapshots *)

\* C20: rename(F@A, T) of an existing snapshot, T being F@B or the bare name
\* B and F@B not existing, raises no error and leaves F@B with what F@A
\* held, F@A gone and everything else as it was; when T is a snapshot of
\* another filesystem the call fails and changes nothing.
C20_SnapshotRename ==
    [][(/\ last'.op = "rename" /\ IsSnapId(last'.a)
        /\ SnapExists(World, last'.a.fs, last'.a.snap))
       => LET F == last'.a.fs
              A == last'.a.snap
              T == last'.b
              B == IF IsSnapId(T) THEN T.snap ELSE T.fs[1]
          IN  /\ (/\ (IsSnapId(T) /\ T.fs = F) \/ (~IsSnapId(T) /\ Len(T.fs) = 1)
                  /\ ~SnapExists(World, F, B))
                 => /\ last'.err = "ok"
                    /\ fsys' = [fsys EXCEPT ![F].snaps.m =
                                  [S \in ((DOMAIN @) \ {A}) \cup {B} |->
                                     IF S = B THEN @[A] ELSE @[S]]]
                    /\ <<pools', ddirs', dfiles'>> = <<pools, ddirs, dfiles>>
              /\ (IsSnapId(T) /\ T.fs # F)
                 => last'.err # "ok" /\ Storage' = Storage]_vars

\* A snapshot with data was renamed by a bare name and sits under the new
\* name, the old name gone.
C20_Witness ==
    /\ last.op = "rename" /\ last.err = "ok"
    /\ IsSnapId(last.a) /\ ~IsSnapId(last.b)
    /\ SnapExists(World, last.a.fs, last.b.fs[1])
    /\ ~SnapExists(World, last.a.fs, last.a.snap)
    /\ fsys[last.a.fs].snaps.m[last.b.fs[1]].data.present

----------------------------------------------------------------------------
(* Failing renames of filesystems *)

\* C21: rename(F, T) with a filesystem identifier F raises an error and
\* changes nothing when T lies in another pool, T exists, T is a snapshot
\* identifier or F does not exist.
C21_RenameRefused ==
    [][(/\ last'.op = "rename" /\ ~IsSnapId(last'.a)
        /\ \/ PoolOf(last'.b.fs) # PoolOf(last'.a.fs)
           \/ DsExists(World, last'.b)
           \/ IsSnapId(last'.b)
           \/ ~FsExists(World, last'.a.fs))
       => last'.err # "ok" /\ Storage' = Storage]_vars

\* An existing filesystem of pool foo was refused a new name in the existing
\* pool bar.
C21_Witness ==
    /\ last.op = "rename" /\ last.err = "different_pool"
    /\ FsExists(World, last.a.fs)
    /\ PoolExists(World, "bar") /\ PoolOf(last.b.fs) = "bar"
    /\ ~FsExists(World, last.b.fs)

----------------------------------------------------------------------------
(* Listing while datasets come and go *)

\* C22: a process listing all datasets while other processes create and
\* destroy pools, filesystems and snapshots never fails with an error.
C22_ListerNeverFails == lister.pc # "failed"

----------------------------------------------------------------------------
(* Properties of snapshots *)

\* The proper ancestors of filesystem F that exist and have key K local.
AncestorsWith(w, F, K) ==
    {G \in Prefixes(F) \ {F} : FsExists(w, G) /\ K \in DOMAIN LocalOf(w, G)}
\* The nearest of them.
NearestWith(w, F, K) ==
    CHOOSE G \in AncestorsWith(w, F, K) :
        \A H \in AncestorsWith(w, F, K) : Len(H) <= Len(G)

\* C23: for a snapshot F@S and a key K not local on the snapshot, when K is
\* local on an ancestor of F, resolve(F@S, K) is the value of the nearest
\* such ancestor with source inherited.
C23_SnapshotInherits ==
    \A F \in DOMAIN fsys : \A S \in SnapsOf(World, F) : \A K \in Keys :
       (/\ K \notin DOMAIN PropsDir(World, SnapObj(F, S)).kv
        /\ AncestorsWith(World, F, K) # {})
       => Resolve(World, SnapId(F, S), K)
            = [val |-> LocalOf(World, NearestWith(World, F, K))[K],
               source |-> "inherited"]

----------------------------------------------------------------------------
(* remove_local_property *)

\* C24: remove_local_property(D, K) on an existing dataset raises no error;
\* when K's source on D is local it returns true and K is no longer local on
\* D; when K is absent or inherited it returns false and changes nothing; in
\* both cases only D's own key file K can have changed.
C24_RemoveLocalClaim ==
    [][last'.op = "remove_local"
       => LET d == ObjOf(last'.a)
              K == last'.kvs[1][1]
          IN  /\ last'.err = "ok"
              /\ IF last'.pre.source = "local"
                 THEN /\ last'.flag
                      /\ Resolve(WorldAfter, last'.a, K).source # "local"
                      /\ WorldAfter
                           = SetPropsDir(World, d,
                               [PropsDir(World, d) EXCEPT !.kv = Del(@, K)])
                 ELSE ~last'.flag /\ Storage' = Storage]_vars

----------------------------------------------------------------------------
(* resolve *)

\* The filesystems a dataset inherits from: the ancestors of a filesystem;
\* the owning filesystem of a snapshot and its ancestors.
ChainOf(id) ==
    IF IsSnapId(id) THEN Prefixes(id.fs) ELSE Prefixes(id.fs) \ {id.fs}
ChainWith(w, id, K) ==
    {G \in ChainOf(id) : FsExists(w, G) /\ K \in DOMAIN LocalOf(w, G)}
\* What resolve is to return for dataset id and key K.
Expected(w, id, K) ==
    LET own == PropsDir(w, ObjOf(id)).kv
        near == CHOOSE G \in ChainWith(w, id, K) :
                    \A H \in ChainWith(w, id, K) : Len(H) <= Len(G)
    IN  IF K \in DOMAIN own THEN [val |-> own[K], source |-> "local"]
        ELSE IF ChainWith(w, id, K) # {}
        THEN [val |-> LocalOf(w, near)[K], source |-> "inherited"]
        ELSE NotFound

----------------------------------------------------------------------------
(* rollback twice *)

\* C26: a rollback to F@S that comes right after a rollback to F@S succeeds
\* and changes nothing: the files and local properties of F are those the
\* first rollback left, and S is untouched by both.
C26_RollbackTwice ==
    [][(/\ last.op = "rollback" /\ last.err = "ok"
        /\ last'.op = "rollback" /\ last'.a = last.a)
       => /\ last'.err = "ok"
          /\ Storage' = Storage]_vars
C26_Witness ==
    /\ last.op = "rollback" /\ last.follows /\ last.err = "ok"
    /\ FilesOf(World, last.a.fs) # {}
    /\ LocalOf(World, last.a.fs) # EmptyMap

----------------------------------------------------------------------------
(* destroy *)

\* The properties a create command was given, as a map.
Given(kvs) ==
    [k \in {kvs[i][1] : i \in DOMAIN kvs} |->
        kvs[CHOOSE i \in DOMAIN kvs :
               kvs[i][1] = k /\ \A j \in DOMAIN kvs : kvs[j][1] = k => j <= i][2]]

\* C27: a destroy of filesystem F that succeeds removes F's data directory
\* and F's root with its properties and snapshots; a create of F right after
\* it gives a filesystem without files, without snapshots and with no local
\* property but those the create was given; a destroy that names a snapshot
\* fails and changes nothing.
C27_DestroyClaim ==
    [][/\ (last'.op = "destroy" /\ last'.err = "ok")
          => /\ ~FsExists(WorldAfter, last'.a.fs)
             /\ ~MountExists(WorldAfter, last'.a.fs)
       /\ (last'.op = "create" /\ last'.follows /\ last'.err = "ok")
          => /\ FilesOf(WorldAfter, last'.a.fs) = {}
             /\ SnapsOf(WorldAfter, last'.a.fs) = {}
             /\ LocalOf(WorldAfter, last'.a.fs) = Given(last'.kvs)
       /\ (last'.op = "destroy" /\ IsSnapId(last'.a))
          => last'.err # "ok" /\ Storage' = Storage]_vars
\* The root filesystem of SnapWorld, with its file, its property and its
\* snapshot, was destroyed and then created again.
C27_Witness ==
    /\ last.op = "create" /\ last.follows /\ last.err = "ok"
    /\ last.a = FsId(<<"foo">>) /\ nops = 2
    /\ FsExists(World, <<"foo">>)
\* A destroy that named an existing snapshot.
C27_WitnessSnapshot ==
    /\ last.op = "destroy" /\ IsSnapId(last.a) /\ last.err # "ok"
    /\ SnapExists(World, last.a.fs, last.a.snap)

----------------------------------------------------------------------------
(* children *)

\* The components of a name: the parts between its slashes.
RECURSIVE Components(_)
Components(str) ==
    IF Count(str, "/") = 0 THEN <<str>>
    ELSE LET i == CHOOSE i \in DOMAIN str :
                      str[i] = "/" /\ \A j \in 1..(i - 1) : str[j] # "/"
         IN  <<SubSeq(str, 1, i - 1)>> \o Components(SubSeq(str, i + 1, Len(str)))
\* G is a descendant of F, and how many generations below it.
Descendant(F, G) ==
    Len(Components(G)) > Len(Components(F)) /\ IsPrefix(Components(F), Components(G))
Generations(F, G) == Len(Components(G)) - Len(Components(F))

\* C28: children(F, d) is the set of existing descendants of F, all of them
\* when d = 0 and those at most d generations below F when d > 0; a name that
\* has F as a string prefix without being below it is never among them; a
\* non-recursive destroy of F is refused exactly when F has a descendant, and
\* otherwise removes F and nothing else.
C28_ChildrenClaim ==
    /\ last.op = "children"
       => last.got = {G \in last.names :
                        /\ Descendant(last.name, G)
                        /\ last.depth = 0 \/ Generations(last.name, G) <= last.depth}
    /\ (last.op = "destroy_name" /\ ~last.recursive /\ last.name \in last.names)
       => IF \E G \in last.names : Descendant(last.name, G)
          THEN last.got = [err |-> "has_children", names |-> last.names]
          ELSE last.got = [err |-> "ok", names |-> last.names \ {last.name}]
\* The children of a/a one generation down were asked for while a/aa, a/a/a
\* and a/aa/a existed.
C28_Witness ==
    /\ last.op = "children" /\ last.name = <<"a", "/", "a">> /\ last.depth = 1
    /\ last.names = ChildNames
    /\ last.got = {<<"a", "/", "a", "/", "a">>}
\* a/a was destroyed without -r while a/aa existed.
C28_WitnessDestroy ==
    /\ last.op = "destroy_name" /\ ~last.recursive
    /\ last.name = <<"a", "/", "a">>
    /\ <<"a", "/", "a", "a">> \in last.got.names
    /\ last.got.err = "ok"

----------------------------------------------------------------------------
(* get_all_datasets *)

Range(seq) == {seq[i] : i \in DOMAIN seq}
\* The datasets named on the command line, the filesystems among them, and
\* the descendants the options add: all of them with -r alone, those at most
\* d generations down with -d d.
Named == Range(last.identifiers)
NamedFs == {id.fs : id \in {x \in Named : ~IsSnapId(x)}}
Expansion ==
    IF last.recursive \/ last.depth # 0
    THEN {FsId(G) : G \in {H \in DOMAIN fsys :
                             \E F \in NamedFs :
                                /\ Below(F, H)
                                /\ last.depth = 0 \/ Len(H) - Len(F) <= last.depth}}
    ELSE {}
SnapshotsOfAll(ids) ==
    UNION {{SnapId(id.fs, S) : S \in SnapsOf(World, id.fs)} :
             id \in {x \in ids : ~IsSnapId(x)}}
TypeKeeps(id) ==
    IF IsSnapId(id) THEN last.types \cap {"all", "snapshot", "snap"} # {}
    ELSE last.types \cap {"all", "filesystem"} # {}

\* C29: a list of existing identifiers returns the named datasets, with
\* recursive or a depth also their descendants, and the snapshots of every
\* named or added filesystem, each kind only when the type filter asks for
\* it: the snapshots are returned even when the filesystems are filtered out.
C29_GetAllDatasets ==
    (last.op = "list" /\ last.identifiers # <<>> /\ last.got.err = "ok")
    => Range(last.got.datasets)
         = {id \in Named \cup Expansion \cup SnapshotsOfAll(Named \cup Expansion) :
               TypeKeeps(id)}
\* Snapshots only were asked for, below foo/a with its descendants, and the
\* snapshot of the descendant foo/a/b was returned.
C29_Witness ==
    /\ last.op = "list" /\ last.got.err = "ok"
    /\ last.identifiers = <<FsId(<<"foo", "a">>)>>
    /\ last.types = {"snap"} /\ last.recursive /\ last.depth = 0
    /\ \E S \in SnapNames : SnapId(<<"foo", "a", "b">>, S) \in Range(last.got.datasets)
    /\ \A i \in DOMAIN last.got.datasets : IsSnapId(last.got.datasets[i])

----------------------------------------------------------------------------
(* pool names *)

\* C30: the creation of a pool whose name is empty, does not start with an
\* alphanumeric character or holds a character outside the permitted set is
\* rejected with an error, and no pool is created.
C30_InvalidPoolNameRejected ==
    (last.op = "zpool_create_name" /\ ~ValidateComponentName(last.name, FALSE))
    => last.got.err # "ok" /\ last.got.pools = IdentPools

----------------------------------------------------------------------------
(* safe names *)

\* C31: for valid filesystem names, unescaping the escaped name gives the
\* name back, two different names have different directory entries, and the
\* listing of the directory returns exactly the names that were given.
C31_SafeNameReversible ==
    (/\ last.op = "safe_name"
     /\ ValidateComponentName(last.name, TRUE)
     /\ ValidateComponentName(last.other, TRUE))
    => /\ UnsafeName(last.safe) = last.name
       /\ last.name # last.other => last.safe # last.otherSafe
       /\ last.listed = {last.name, last.other}
\* Two different valid names with a slash each were escaped and listed.
C31_Witness ==
    /\ last.op = "safe_name"
    /\ last.name = <<"a", "/", "a">> /\ last.other = <<"a", "/", "_">>
    /\ last.safe = <<"a", "%", "a">>
    /\ last.listed = {last.name, last.other}

----------------------------------------------------------------------------
(* history *)

\* The pools of the datasets a command names.
NamedPools(cmd) ==
    IF cmd.op \in {"snapshot", "set"} THEN {PoolOf(cmd.b[i].fs) : i \in DOMAIN cmd.b}
    ELSE IF cmd.op = "clone" THEN {PoolOf(cmd.a.fs), PoolOf(cmd.b.fs)}
    ELSE {PoolOf(cmd.a.fs)}

\* C32: a command that succeeds adds exactly one record, its own, to the
\* history of each pool it names a dataset of and none to the others,
\* however many of the pool's datasets it names; diff, get, list and send
\* add none; the records a pool had are kept, in their order.
C32_HistoryOncePerPool ==
    [][\A P \in DOMAIN history :
          /\ IsPrefix(history[P], history'[P])
          /\ (last'.err = "ok" /\ last'.op \notin {"diff", "get", "list", "send"})
             => history'[P] = IF P \in NamedPools(last')
                              THEN Append(history[P], Argv(last'))
                              ELSE history[P]
          /\ last'.op \in {"diff", "get", "list", "send"}
             => history'[P] = history[P]]_vars
\* A snapshot command that named one dataset of foo and two of bar left one
\* record in each pool, after the record of the pool's creation.
C32_Witness ==
    /\ last.op = "snapshot" /\ last.err = "ok" /\ Len(last.b) = 3
    /\ \A P \in {"foo", "bar"} :
          /\ Len(history[P]) = 2
          /\ history[P][1].op = "zpool_create"
          /\ history[P][2] = Argv(last)

----------------------------------------------------------------------------
(* recursive destroy, step by step *)

\* C33: while a recursive destroy is under way, every existing filesystem
\* below a pool's root has an existing parent, and every existing
\* filesystem has its data directory, but for the one whose own call has
\* just removed it: descendants go before their ancestors, and none loses
\* its data directory with an ancestor's.
C33_PostOrder ==
    (procs # NoProcs /\ "d" \in DOMAIN procs
     /\ procs.d.pc = "destroying" /\ procs.d.recursive)
    => \A G \in DOMAIN fsys :
          /\ Len(G) > 1 => FsExists(World, Front(G))
          /\ \/ MountExists(World, G)
             \/ /\ G = Head(procs.d.stack).fs
                /\ Head(procs.d.stack).stage = "root"

----------------------------------------------------------------------------
(* rollback and the other filesystems *)

\* The files that lie directly in the data directory of G.
OwnFiles(w, G) == {f \in w.dfiles : Front(f) = G}

\* C34: a successful rollback to F@S leaves every other filesystem as it
\* was: its files, its local properties and its snapshots are unchanged,
\* and it still has an existing data directory.
C34_RollbackFrame ==
    [][(last'.op = "rollback" /\ last'.err = "ok")
       => \A G \in DOMAIN fsys \ {last'.a.fs} :
             /\ G \in DOMAIN fsys'
             /\ fsys'[G] = fsys[G]
             /\ OwnFiles(WorldAfter, G) = OwnFiles(World, G)
             /\ MountExists(World, G) => MountExists(WorldAfter, G)]_vars

----------------------------------------------------------------------------
(* the filesystem tree *)

\* C35: after any creates, destroys, renames, clones and receives, failed
\* or not, every existing filesystem below a pool's root has an existing
\* parent, a data link that resolves to an existing directory, a
\* properties area and a snapshots collection.
C35_TreeWellFormed ==
    \A G \in DOMAIN fsys :
        Len(G) > 1 =>
            /\ FsExists(World, Front(G))
            /\ MountExists(World, G)
            /\ fsys[G].props.present
            /\ fsys[G].snaps.present

----------------------------------------------------------------------------
(* concurrent creates *)

\* The dataset has all its parts: a filesystem its data link, properties
\* directory and snapshots directory, a snapshot its data and properties.
AllParts(w, id) ==
    /\ DsExists(w, id)
    /\ IF IsSnapId(id)
       THEN /\ w.fsys[id.fs].snaps.m[id.snap].data.present
            /\ w.fsys[id.fs].snaps.m[id.snap].props.present
       ELSE /\ w.fsys[id.fs].data
            /\ w.fsys[id.fs].props.present
            /\ w.fsys[id.fs].snaps.present

\* C36: of two processes that run create (or snapshot) for the same dataset
\* that does not exist, at most one ever reports success, and when both have
\* ended and one succeeded the dataset has all its parts.
C36_OneCreateWins ==
    (DOMAIN procs = Racers) =>
        /\ ~(procs["p"].pc = "done" /\ procs["q"].pc = "done")
        /\ (/\ \A x \in Racers : procs[x].pc \in {"done", "failed"}
            /\ \E x \in Racers : procs[x].pc = "done")
           => AllParts(World, procs["p"].id)
\* Both passed their existence checks; one made the filesystem and the
\* other failed on a system call.
C36_Witness ==
    /\ DOMAIN procs = Racers
    /\ ~IsSnapId(procs["p"].id)
    /\ \E x, y \in Racers :
          /\ procs[x].pc = "done"
          /\ procs[y].pc = "failed" /\ procs[y].err = "oserror"
C36_WitnessSnapshot ==
    /\ DOMAIN procs = Racers
    /\ IsSnapId(procs["p"].id)
    /\ \E x, y \in Racers :
          /\ procs[x].pc = "done"
          /\ procs[y].pc = "failed" /\ procs[y].err = "oserror"

----------------------------------------------------------------------------
(* the name property *)

\* The identifier under which a dataset is resolved.
FullName(id) ==
    IF IsSnapId(id) THEN Join(id.fs) \o "@" \o id.snap ELSE Join(id.fs)

\* C37: whatever has been set and inherited, the property name of every
\* existing filesystem and snapshot resolves to the dataset's fully
\* qualified name, with source local.
C37_NameIsIdentifier ==
    \A id \in AllIds :
        DsExists(World, id)
        => Resolve(World, id, "name") = [val |-> FullName(id), source |-> "local"]

----------------------------------------------------------------------------
(* datasets listed once *)

\* C38: whatever the identifiers, recursive and the depth, the list that
\* get_all_datasets returns holds each dataset at most once.
C38_EachDatasetOnce ==
    (last.op = "list" /\ last.got.err = "ok")
    => \A i, j \in DOMAIN last.got.datasets :
          last.got.datasets[i] = last.got.datasets[j] => i = j

----------------------------------------------------------------------------
(* termination of the recursive destroy *)

\* A destroy that has started ends, with success or with an error.
DestroyTerminates ==
    (procs.d.pc = "destroying") ~> (procs.d.pc \in {"done", "failed"})

\* C39: a recursive destroy terminates because each call of destroy is made
\* on a filesystem that exists and that the call then removes.
C39_DestroyCallsRemove ==
    (/\ procs # NoProcs /\ "d" \in DOMAIN procs
     /\ procs.d.pc = "destroying" /\ procs.d.recursive
     /\ Head(procs.d.stack).stage = "call")
    => FsExists(World, Head(procs.d.stack).fs)
====
